---------------------------- MODULE Spec2Model ----------------------------
(***************************************************************************)
(* A model of the color-utils library: the conversion primitives           *)
(* (colorConversions.ts), the naming pipeline (colorNaming.ts) and the     *)
(* palette generator (colorPalette.ts).                                    *)
(*                                                                         *)
(* The library is a set of pure functions.  Each function is an operator   *)
(* of the same name, translated statement by statement; a call is a state  *)
(* machine step: the initial state holds a pending call (the function and  *)
(* its arguments), the function's action applies it and stores what it     *)
(* returned or that it threw.                                              *)
(*                                                                         *)
(* Strings are sequences of one-character strings.  Numbers are IEEE-754   *)
(* doubles, computed with the rounding of the source's arithmetic (see     *)
(* "Numbers" below).  Math.pow is the one operation whose result the       *)
(* language leaves to the implementation: mathPow says whether the build   *)
(* that runs the call rounds an inexact power down or up.                  *)
(*                                                                         *)
(* heap holds the one object of module scope that outlives a call, the     *)
(* toneBuckets table of colorNaming.ts.  The functions that read it take   *)
(* the table as their first argument, and an action passes what the heap   *)
(* holds when the call is made.  calls counts the calls the process has    *)
(* completed since the module was loaded.                                  *)
(***************************************************************************)
EXTENDS Integers, Sequences, FiniteSets, TLC

VARIABLES pc, fn, hex, nums, ret, mathPow, heap, calls

vars == <<pc, fn, hex, nums, ret, mathPow, heap, calls>>

(***************************************************************************)
(* Characters and strings                                                  *)
(***************************************************************************)
\* "const v = e; F(v)": e is evaluated once and F is applied to its value.
Bind(e, F(_)) == CHOOSE r \in {F(v) : v \in {e}} : TRUE

Bind2(e1, e2, F(_, _)) == CHOOSE r \in {F(v, w) : v \in {e1}, w \in {e2}} : TRUE

Bind3(e1, e2, e3, F(_, _, _)) ==
  CHOOSE r \in {F(u, v, w) : u \in {e1}, v \in {e2}, w \in {e3}} : TRUE

LowerLetters ==
  <<"a","b","c","d","e","f","g","h","i","j","k","l","m",
    "n","o","p","q","r","s","t","u","v","w","x","y","z">>

UpperLetters ==
  <<"A","B","C","D","E","F","G","H","I","J","K","L","M",
    "N","O","P","Q","R","S","T","U","V","W","X","Y","Z">>

\* String.prototype.toUpperCase / toLowerCase on one ASCII character.
charToUpperCase(c0) ==
  Bind(c0, LAMBDA c :
    IF \E i \in 1..26 : LowerLetters[i] = c
    THEN UpperLetters[CHOOSE i \in 1..26 : LowerLetters[i] = c]
    ELSE c)

charToLowerCase(c0) ==
  Bind(c0, LAMBDA c :
    IF \E i \in 1..26 : UpperLetters[i] = c
    THEN LowerLetters[CHOOSE i \in 1..26 : UpperLetters[i] = c]
    ELSE c)

toUpperCase(str0) ==
  Bind(str0, LAMBDA str : [i \in 1..Len(str) |-> charToUpperCase(str[i])])

\* The digits Number.prototype.toString(16) writes, by value.
Base16Digits ==
  <<"0","1","2","3","4","5","6","7","8","9","a","b","c","d","e","f">>

\* The character class [0-9A-Fa-f].
HexChars ==
  {Base16Digits[i] : i \in 1..16} \cup {charToUpperCase(Base16Digits[i]) : i \in 1..16}

\* The character class \s restricted to ASCII, and the class [\s-].
Whitespace == {" ", "\t", "\n", "\r"}

\* parseInt(c, 16) of one character of [0-9A-Fa-f].
digitValue(c) ==
  Bind(charToLowerCase(c), LAMBDA lc : (CHOOSE i \in 1..16 : Base16Digits[i] = lc) - 1)

\* parseInt(s, 16) of a string of characters of [0-9A-Fa-f].
RECURSIVE parseInt16(_)
parseInt16(s0) ==
  Bind(s0, LAMBDA s :
    IF s = <<>> THEN 0
    ELSE 16 * parseInt16(SubSeq(s, 1, Len(s) - 1)) + digitValue(s[Len(s)]))

(***************************************************************************)
(* Natural numbers of any size                                             *)
(*                                                                         *)
(* A sequence of limbs, least significant first, each in 0..Base-1.        *)
(***************************************************************************)
Base == 2^14

\* Limb i of n, 0 beyond its length.
limb(n, i) == IF i \in 1..Len(n) THEN n[i] ELSE 0

\* The limbs and the carry out of the column sums cols (integers of either
\* sign): <<limbs, c>> with Len(limbs) = Len(cols) and value
\* limbs + c * Base^Len(cols).  acc holds the limbs below position i and c
\* is the carry into it.
RECURSIVE carryFrom(_, _, _, _)
carryFrom(cols, i, c, acc) ==
  IF i > Len(cols) THEN <<acc, c>>
  ELSE Bind(cols[i] + c, LAMBDA t :
         carryFrom(cols, i + 1, t \div Base, Append(acc, t % Base)))

\* The limbs of the number that column sums cols >= 0 denote.
carry(cols) ==
  Bind(carryFrom(cols, 1, 0, <<>>), LAMBDA r :
    IF r[2] = 0 THEN r[1]
    ELSE IF r[2] < Base THEN Append(r[1], r[2])
    ELSE r[1] \o <<r[2] % Base, r[2] \div Base>>)

\* The number of limbs of n up to its most significant nonzero limb.
limbLen(n) ==
  Bind({i \in 1..Len(n) : n[i] # 0}, LAMBDA nz :
    IF nz = {} THEN 0 ELSE CHOOSE i \in nz : \A j \in nz : j <= i)

\* The number of bits of a limb v > 0.
limbBits(v) == CHOOSE k \in 1..14 : v < 2^k

\* The number of bits of n, 0 for 0.
bitLen(n) ==
  Bind(limbLen(n), LAMBDA k : IF k = 0 THEN 0 ELSE 14 * (k - 1) + limbBits(n[k]))

\* -1, 0 or 1 as a < b, a = b or a > b.
bigCmp(a, b) ==
  Bind({i \in 1..(IF Len(a) > Len(b) THEN Len(a) ELSE Len(b)) : limb(a, i) # limb(b, i)},
       LAMBDA differ :
    IF differ = {} THEN 0
    ELSE Bind(CHOOSE i \in differ : \A j \in differ : j <= i, LAMBDA k :
           IF limb(a, k) < limb(b, k) THEN -1 ELSE 1))

bigAdd(a, b) ==
  Bind([i \in 1..(IF Len(a) > Len(b) THEN Len(a) ELSE Len(b)) |-> limb(a, i) + limb(b, i)],
       LAMBDA cols : carry(cols))

\* a - b for a >= b.
bigSub(a, b) ==
  Bind([i \in 1..(IF Len(a) > Len(b) THEN Len(a) ELSE Len(b)) |-> limb(a, i) - limb(b, i)],
       LAMBDA cols : carry(cols))

\* a * b for a and b of at most 4 limbs.
bigMul(a, b) ==
  Bind([k \in 1..7 |->
          limb(a, 1) * limb(b, k) + limb(a, 2) * limb(b, k - 1)
            + limb(a, 3) * limb(b, k - 2) + limb(a, 4) * limb(b, k - 3)],
       LAMBDA cols : carry(cols))

\* n * 2^k.
shiftLeft(n, k) ==
  Bind(2^(k % 14), LAMBDA p :
    Bind([i \in 1..Len(n) |-> n[i] * p], LAMBDA cols :
      [i \in 1..(k \div 14) |-> 0] \o carry(cols)))

\* floor(n / 2^k).
shiftRight(n, k) ==
  Bind3(k \div 14, 2^(k % 14), 2^(14 - (k % 14)), LAMBDA a, p, q :
    [i \in 1..(Len(n) - a) |-> (n[i + a] \div p) + (limb(n, i + a + 1) % p) * q])

\* Bit j (from 0) of n.
bit(n, j) == (limb(n, (j \div 14) + 1) \div 2^(j % 14)) % 2

\* Whether n has a nonzero bit below bit k.
lowNonzero(n, k) ==
  \/ \E i \in 1..(k \div 14) : limb(n, i) # 0
  \/ limb(n, (k \div 14) + 1) % 2^(k % 14) # 0

\* The integer that n < 2^31 denotes.
toInt(n) == limb(n, 1) + limb(n, 2) * Base + limb(n, 3) * Base * Base

\* The limbs of an integer k >= 0.
fromNat(k) == <<k % Base, (k \div Base) % Base, k \div (Base * Base)>>

\* n as 4 limbs, for n < 2^56.
pad4(n) == [i \in 1..4 |-> limb(n, i)]

(***************************************************************************)
(* Numbers                                                                 *)
(*                                                                         *)
(* A JavaScript number is an IEEE-754 double.  The finite double           *)
(* s * m * 2^e is <<s, e, m>>: s is -1 or 1, m is 4 limbs with             *)
(* 2^52 <= m < 2^53, and 0 is <<0, 0, <<0, 0, 0, 0>>>>, so that two        *)
(* numbers are equal exactly when their tuples are.  Every operation       *)
(* gives the double nearest to its exact result, ties to even.  The        *)
(* library never produces an infinity, a NaN or a subnormal, and a         *)
(* negative zero behaves as zero wherever it could arise, so none of       *)
(* these is represented.                                                   *)
(***************************************************************************)
Zero == <<0, 0, <<0, 0, 0, 0>>>>

TwoTo52 == <<0, 0, 0, 2^10>>

TwoTo53 == <<0, 0, 0, 2^11>>

\* The double nearest to s * (n + f) * 2^e, where f is 0, or some fraction
\* strictly between 0 and 1 when sticky (n then has at least 55 bits).
roundToDouble(s, n0, e, sticky) ==
  Bind(n0, LAMBDA n :
    Bind(bitLen(n), LAMBDA len :
      IF len = 0 THEN Zero
      ELSE IF len <= 53 THEN <<s, e - (53 - len), pad4(shiftLeft(n, 53 - len))>>
      ELSE Bind2(len - 53, pad4(shiftRight(n, len - 53)), LAMBDA k, q :
        IF bit(n, k - 1) = 1 /\ (sticky \/ q[1] % 2 = 1 \/ lowNonzero(n, k - 1))
        THEN Bind(carryFrom(q, 1, 1, <<>>)[1], LAMBDA up :
               IF up = TwoTo53 THEN <<s, e + k + 1, TwoTo52>> ELSE <<s, e + k, up>>)
        ELSE <<s, e + k, q>>)))

\* The number an integer k denotes.
Number(k) ==
  roundToDouble(IF k < 0 THEN -1 ELSE 1, fromNat(IF k < 0 THEN -k ELSE k), 0, FALSE)

\* -x.
Negate(x0) == Bind(x0, LAMBDA x : <<-x[1], x[2], x[3]>>)

\* -1, 0 or 1 as x < y, x = y or x > y.
Compare(x0, y0) ==
  Bind2(x0, y0, LAMBDA x, y :
    IF x[1] # y[1] THEN (IF x[1] < y[1] THEN -1 ELSE 1)
    ELSE IF x[1] = 0 THEN 0
    ELSE IF x[2] # y[2] THEN (IF x[2] < y[2] THEN -x[1] ELSE x[1])
    ELSE x[1] * bigCmp(x[3], y[3]))

\* x < y, x <= y.
Less(x, y) == Compare(x, y) < 0

LessEq(x, y) == Compare(x, y) <= 0

\* x + y for nonzero x and y with the exponent of x not below that of y:
\* the sum or the difference of the magnitudes, with the sign of the greater.
plusOrdered(x, y) ==
  IF x[2] - y[2] > 60 THEN x
  ELSE Bind(shiftLeft(x[3], x[2] - y[2]), LAMBDA a :
    IF x[1] = y[1] THEN roundToDouble(x[1], bigAdd(a, y[3]), y[2], FALSE)
    ELSE Bind(bigCmp(a, y[3]), LAMBDA c :
      roundToDouble(x[1] * c,
                    bigSub(IF c >= 0 THEN a ELSE y[3], IF c >= 0 THEN y[3] ELSE a),
                    y[2], FALSE)))

\* x + y.
Plus(x0, y0) ==
  Bind2(x0, y0, LAMBDA x, y :
    IF x[1] = 0 THEN y
    ELSE IF y[1] = 0 THEN x
    ELSE Bind2(IF x[2] >= y[2] THEN x ELSE y, IF x[2] >= y[2] THEN y ELSE x,
               LAMBDA hi, lo : plusOrdered(hi, lo)))

\* x - y.
Minus(x, y) == Plus(x, Negate(y))

\* x * y.
Times(x0, y0) ==
  Bind2(x0, y0, LAMBDA x, y :
    IF x[1] = 0 \/ y[1] = 0 THEN Zero
    ELSE roundToDouble(x[1] * y[1], bigMul(x[3], y[3]), x[2] + y[2], FALSE))

\* <<r - q * v, q>> for the greatest q with q * v <= r, given a q that is
\* not below it: q is lowered while the difference is negative.
RECURSIVE lowerDigit(_, _, _)
lowerDigit(r, v, q) ==
  Bind(carryFrom([i \in 1..5 |-> r[i] - limb(v, i) * q], 1, 0, <<>>), LAMBDA d :
    IF d[2] < 0 THEN lowerDigit(r, v, q - 1) ELSE <<d[1], q>>)

\* One digit of the long division by v (4 limbs, the top one at least
\* Base / 2): the remainder r0 < v takes a zero limb below; the digit is
\* estimated from the two top limbs and then lowered as needed.
divStep(r0, v) ==
  Bind(<<0>> \o pad4(r0), LAMBDA r :
    Bind((r[5] * Base + r[4]) \div v[4], LAMBDA est :
      lowerDigit(r, v, IF est > Base - 1 THEN Base - 1 ELSE est)))

\* k more digits of the long division of remainder r by v, put below the
\* digits acc: <<digits, last remainder>>.
RECURSIVE divDigits(_, _, _, _)
divDigits(r, v, k, acc) ==
  IF k = 0 THEN <<acc, r>>
  ELSE Bind(divStep(r, v), LAMBDA d : divDigits(d[1], v, k - 1, <<d[2]>> \o acc))

\* <<floor(a * 2^56 / b), whether a remainder is left>> for mantissas a, b.
divMantissa(a0, b0) ==
  Bind2(carry([i \in 1..4 |-> a0[i] * 8]), pad4(carry([i \in 1..4 |-> b0[i] * 8])),
        LAMBDA a, v :
    Bind(IF bigCmp(a, v) >= 0 THEN 1 ELSE 0, LAMBDA q5 :
      Bind(divDigits(bigSub(a, IF q5 = 1 THEN v ELSE <<>>), v, 4, <<q5>>), LAMBDA d :
        <<d[1], limbLen(d[2]) # 0>>)))

\* x / y for y # 0.
Divide(x0, y0) ==
  Bind2(x0, y0, LAMBDA x, y :
    IF x[1] = 0 THEN Zero
    ELSE Bind(divMantissa(x[3], y[3]), LAMBDA qr :
           roundToDouble(x[1] * y[1], qr[1], x[2] - y[2] - 56, qr[2])))

\* The integer part of |x|, for |x| < 2^31.
intPart(x) == IF x[1] = 0 \/ -x[2] > 53 THEN 0 ELSE toInt(shiftRight(x[3], -x[2]))

\* Math.floor(x) as an integer, for |x| < 2^31.
MathFloor(x0) ==
  Bind(x0, LAMBDA x :
    Bind(intPart(x), LAMBDA whole :
      IF x[1] >= 0 THEN whole
      ELSE IF lowNonzero(x[3], -x[2]) THEN -whole - 1
      ELSE -whole))

\* Math.round(x) as an integer, for |x| < 2^31: the nearest integer, the
\* greater one of two equally near.
MathRound(x0) ==
  Bind(x0, LAMBDA x :
    IF x[1] = 0 \/ -x[2] > 54 THEN 0
    ELSE Bind2(intPart(x), bit(x[3], -x[2] - 1), LAMBDA whole, half :
      IF x[1] > 0 THEN whole + half
      ELSE IF half = 1 /\ lowNonzero(x[3], -x[2] - 1) THEN -whole - 1
      ELSE -whole))

\* x % n for an integer n > 0 and |x| < 2^31: exact, with the sign of x.
Remainder(x0, n) ==
  Bind(x0, LAMBDA x :
    Bind((intPart(x) \div n) * n, LAMBDA whole :
      IF whole = 0 THEN x
      ELSE roundToDouble(x[1], bigSub(x[3], shiftLeft(fromNat(whole), -x[2])), x[2], FALSE)))

MathAbs(x0) == Bind(x0, LAMBDA x : <<x[1] * x[1], x[2], x[3]>>)

MathMax(x0, y0) == Bind2(x0, y0, LAMBDA x, y : IF Compare(x, y) >= 0 THEN x ELSE y)

MathMin(x0, y0) == Bind2(x0, y0, LAMBDA x, y : IF Compare(x, y) <= 0 THEN x ELSE y)

(***************************************************************************)
(* colorConversions.ts                                                     *)
(***************************************************************************)
Thrown == [threw |-> TRUE, r |-> 0, g |-> 0, b |-> 0]

\* hexToRgb expanding a 3-digit string by writing it twice ("F53F53").
hexToRgbRepeated(h) ==
  Bind(IF Len(h) > 0 /\ h[1] = "#" THEN Tail(h) ELSE h, LAMBDA stripped :
    Bind(IF Len(stripped) = 3 THEN stripped \o stripped ELSE stripped,
         LAMBDA cleanHex :
      IF ~(Len(cleanHex) = 6 /\ \A i \in 1..6 : cleanHex[i] \in HexChars)
      THEN Thrown
      ELSE [threw |-> FALSE,
            r |-> parseInt16(SubSeq(cleanHex, 1, 2)),
            g |-> parseInt16(SubSeq(cleanHex, 3, 4)),
            b |-> parseInt16(SubSeq(cleanHex, 5, 6))]))

hexToRgb(h) ==
  Bind(IF Len(h) > 0 /\ h[1] = "#" THEN Tail(h) ELSE h, LAMBDA stripped :
    Bind(IF Len(stripped) = 3
         THEN [i \in 1..6 |-> stripped[(i + 1) \div 2]]
         ELSE stripped, LAMBDA cleanHex :
      IF ~(Len(cleanHex) = 6 /\ \A i \in 1..6 : cleanHex[i] \in HexChars)
      THEN Thrown
      ELSE [threw |-> FALSE,
            r |-> parseInt16(SubSeq(cleanHex, 1, 2)),
            g |-> parseInt16(SubSeq(cleanHex, 3, 4)),
            b |-> parseInt16(SubSeq(cleanHex, 5, 6))]))

\* Number.prototype.toString(16) of an integer n >= 0.
RECURSIVE toString16(_)
toString16(n0) ==
  Bind(n0, LAMBDA n :
    IF n < 16 THEN <<Base16Digits[n + 1]>>
    ELSE toString16(n \div 16) \o <<Base16Digits[(n % 16) + 1]>>)

\* Math.max(0, Math.min(255, n)) of an integer n.
Clamp255(n0) == Bind(n0, LAMBDA n : IF n < 0 THEN 0 ELSE IF n > 255 THEN 255 ELSE n)

\* toHex without the leading zero of a one-digit value.
toHexUnpadded(n) == toString16(Clamp255(MathRound(n)))

\* The inner toHex of rgbToHex; n is a number.
toHex(n) ==
  Bind(Clamp255(MathRound(n)), LAMBDA clamped :
    Bind(toString16(clamped), LAMBDA h :
      IF Len(h) = 1 THEN <<"0">> \o h ELSE h))

rgbToHex(r, g, b) == toUpperCase(<<"#">> \o toHex(r) \o toHex(g) \o toHex(b))

\* The literal 0.5.
Half == Divide(Number(1), Number(2))

rgbToHsl(r0, g0, b0) ==
  Bind3(Divide(r0, Number(255)), Divide(g0, Number(255)), Divide(b0, Number(255)),
        LAMBDA r, g, b :
    Bind2(MathMax(MathMax(r, g), b), MathMin(MathMin(r, g), b), LAMBDA max, min :
      Bind2(Minus(max, min), Divide(Plus(max, min), Number(2)), LAMBDA diff, l :
        IF diff = Zero
        THEN [h |-> Times(Zero, Number(360)),
              s |-> Times(Zero, Number(100)),
              l |-> Times(l, Number(100))]
        ELSE Bind2(IF Less(Half, l)
                   THEN Divide(diff, Minus(Minus(Number(2), max), min))
                   ELSE Divide(diff, Plus(max, min)),
                   IF max = r
                   THEN Divide(Plus(Divide(Minus(g, b), diff),
                                    Number(IF Less(g, b) THEN 6 ELSE 0)), Number(6))
                   ELSE IF max = g
                   THEN Divide(Plus(Divide(Minus(b, r), diff), Number(2)), Number(6))
                   ELSE Divide(Plus(Divide(Minus(r, g), diff), Number(4)), Number(6)),
                   LAMBDA s, h :
               [h |-> Times(h, Number(360)),
                s |-> Times(s, Number(100)),
                l |-> Times(l, Number(100))]))))

\* The inner hue2rgb of hslToRgb.
hue2rgb(p0, q0, t0) ==
  Bind3(p0, q0, t0, LAMBDA p, q, t1 :
    Bind(IF Less(t1, Zero) THEN Plus(t1, Number(1)) ELSE t1, LAMBDA t2 :
      Bind(IF Less(Number(1), t2) THEN Minus(t2, Number(1)) ELSE t2, LAMBDA t :
        IF Less(t, Divide(Number(1), Number(6)))
        THEN Plus(p, Times(Times(Minus(q, p), Number(6)), t))
        ELSE IF Less(t, Half) THEN q
        ELSE IF Less(t, Divide(Number(2), Number(3)))
        THEN Plus(p, Times(Times(Minus(q, p), Minus(Divide(Number(2), Number(3)), t)),
                           Number(6)))
        ELSE p)))

hslToRgb(h0, s0, l0) ==
  Bind3(Divide(h0, Number(360)), Divide(s0, Number(100)), Divide(l0, Number(100)),
        LAMBDA h, s, l :
    IF s = Zero
    THEN Bind(MathRound(Times(l, Number(255))), LAMBDA v : [r |-> v, g |-> v, b |-> v])
    ELSE Bind(IF Less(l, Half)
              THEN Times(l, Plus(Number(1), s))
              ELSE Minus(Plus(l, s), Times(l, s)), LAMBDA q :
         Bind(Minus(Times(Number(2), l), q), LAMBDA p :
           Bind(<<Plus(h, Divide(Number(1), Number(3))), h,
                  Minus(h, Divide(Number(1), Number(3)))>>, LAMBDA t :
             Bind([c \in 1..3 |-> MathRound(Times(hue2rgb(p, q, t[c]), Number(255)))],
                  LAMBDA channel :
               [r |-> channel[1], g |-> channel[2], b |-> channel[3]])))))

hslToHex(h, s, l) ==
  Bind(hslToRgb(h, s, l), LAMBDA rgb :
    rgbToHex(Number(rgb.r), Number(rgb.g), Number(rgb.b)))

(***************************************************************************)
(* colorNaming.ts                                                          *)
(***************************************************************************)
\* The inner norm of getHueName.
norm(v) == Remainder(Plus(v, Number(360)), 360)

\* The inner choose of getHueName; idx counts from 0 as in the source.
choose(h, a, b, names) ==
  Bind(Divide(Minus(h, Number(a)), Number(b - a)), LAMBDA pos :
    Bind(MathFloor(Times(pos, Number(Len(names)))), LAMBDA fl :
      Bind(IF Len(names) - 1 < fl THEN Len(names) - 1 ELSE fl, LAMBDA idx :
        IF idx \in 0..(Len(names) - 1) THEN names[idx + 1]
        ELSE IF Len(names) > 0 THEN names[1]
        ELSE <<"G","r","a","y">>)))

\* The arguments <<a, b, names>> that the chain of "if (h < ...) return
\* choose(h, a, b, names)" of getHueName gives choose for the normalized hue h;
\* no names where it returns "Indigo" directly.
hueBand(h) ==
  IF Less(h, Number(15)) THEN
    <<0, 15, <<<<"S","c","a","r","l","e","t">>, <<"R","e","d">>, <<"C","r","i","m","s","o","n">>>>>>
  ELSE IF Less(h, Number(35)) THEN
    <<15, 35, <<<<"T","a","n","g","e","r","i","n","e">>, <<"O","r","a","n","g","e">>>>>>
  ELSE IF Less(h, Number(50)) THEN
    <<35, 50, <<<<"A","m","b","e","r">>, <<"H","o","n","e","y">>>>>>
  ELSE IF Less(h, Number(70)) THEN
    <<50, 70, <<<<"L","e","m","o","n">>, <<"Y","e","l","l","o","w">>, <<"G","o","l","d">>>>>>
  ELSE IF Less(h, Number(85)) THEN
    <<70, 85, <<<<"L","i","m","e">>, <<"C","h","a","r","t","r","e","u","s","e">>>>>>
  ELSE IF Less(h, Number(155)) THEN
    <<85, 155, <<<<"M","i","n","t">>, <<"G","r","e","e","n">>, <<"E","m","e","r","a","l","d">>>>>>
  ELSE IF Less(h, Number(180)) THEN
    <<155, 180, <<<<"T","e","a","l">>, <<"A","q","u","a">>>>>>
  ELSE IF Less(h, Number(200)) THEN
    <<180, 200, <<<<"C","y","a","n">>, <<"S","k","y">>>>>>
  ELSE IF Less(h, Number(240)) THEN
    <<200, 240, <<<<"A","z","u","r","e">>, <<"B","l","u","e">>, <<"C","o","b","a","l","t">>>>>>
  ELSE IF Less(h, Number(270)) THEN
    <<240, 270, <<>>>>
  ELSE IF Less(h, Number(295)) THEN
    <<270, 295, <<<<"V","i","o","l","e","t">>, <<"L","a","v","e","n","d","e","r">>>>>>
  ELSE IF Less(h, Number(320)) THEN
    <<295, 320, <<<<"P","u","r","p","l","e">>, <<"G","r","a","p","e">>>>>>
  ELSE IF Less(h, Number(335)) THEN
    <<320, 335, <<<<"M","a","g","e","n","t","a">>, <<"F","u","c","h","s","i","a">>>>>>
  ELSE IF Less(h, Number(350)) THEN
    <<335, 350, <<<<"R","o","s","e">>, <<"C","e","r","i","s","e">>, <<"R","o","s","e","w","o","o","d">>>>>>
  ELSE
    <<350, 360, <<<<"S","c","a","r","l","e","t">>, <<"R","e","d">>, <<"C","r","i","m","s","o","n">>>>>>

getHueName(h0, s) ==
  IF Less(s, Number(8)) THEN <<"N","e","u","t","r","a","l">>
  ELSE Bind(norm(h0), LAMBDA h :
    Bind(hueBand(h), LAMBDA band :
      IF band[3] = <<>> THEN <<"I","n","d","i","g","o">>
      ELSE choose(h, band[1], band[2], band[3])))

toneBuckets ==
  [veryLight |-> <<<<"P","a","l","e">>, <<"W","a","s","h","e","d">>, <<"F","a","i","n","t">>>>,
   lightSoft |-> <<<<"S","o","f","t">>, <<"S","u","b","d","u","e","d">>>>,
   light |-> <<<<"L","i","g","h","t">>, <<"G","e","n","t","l","e">>>>,
   bright |-> <<<<"B","r","i","g","h","t">>, <<"L","i","v","e","l","y">>>>,
   muted |-> <<<<"M","u","t","e","d">>, <<"H","a","z","y">>, <<"S","m","o","k","e","y">>>>,
   medium |-> <<<<"M","e","d","i","u","m">>, <<"B","a","l","a","n","c","e","d">>>>,
   vivid |-> <<<<"V","i","v","i","d">>, <<"S","t","r","o","n","g">>>>,
   dim |-> <<<<"D","i","m">>, <<"M","u","d","d","y">>, <<"D","i","r","t","y">>>>,
   dark |-> <<<<"D","a","r","k">>>>,
   rich |-> <<<<"R","i","c","h">>, <<"I","n","t","e","n","s","e">>>>,
   charcoal |-> <<<<"C","h","a","r","c","o","a","l">>, <<"D","u","s","k","y">>>>,
   deep |-> <<<<"D","e","e","p">>>>,
   inky |-> <<<<"I","n","k","y">>>>]

\* deterministicPick with the weights of saturation and lightness exchanged
\* (h * 7 + s * 3 + l * 5).
deterministicPickSwapped(list0, h, s, l) ==
  Bind(list0, LAMBDA list :
  Bind(MathFloor(Remainder(Plus(Plus(Times(h, Number(7)), Times(s, Number(3))),
                                Times(l, Number(5))), Len(list))),
       LAMBDA seed :
    IF seed \in 0..(Len(list) - 1) THEN list[seed + 1]
    ELSE IF Len(list) > 0 THEN list[1]
    ELSE <<"M","e","d","i","u","m">>))

deterministicPick(list0, h, s, l) ==
  Bind(list0, LAMBDA list :
  Bind(MathFloor(Remainder(Plus(Plus(Times(h, Number(7)), Times(s, Number(5))),
                                Times(l, Number(3))), Len(list))),
       LAMBDA seed :
    IF seed \in 0..(Len(list) - 1) THEN list[seed + 1]
    ELSE IF Len(list) > 0 THEN list[1]
    ELSE <<"M","e","d","i","u","m">>))

\* The bucket that the chain of conditions of getToneName passes to
\* deterministicPick.
toneBucket(buckets, s, l) ==
  IF Less(Number(85), l) THEN buckets.veryLight
  ELSE IF Less(Number(65), l) THEN
    IF Less(s, Number(30)) THEN buckets.lightSoft
    ELSE IF Less(s, Number(60)) THEN buckets.light
    ELSE buckets.bright
  ELSE IF Less(Number(35), l) THEN
    IF Less(s, Number(30)) THEN buckets.muted
    ELSE IF Less(s, Number(60)) THEN buckets.medium
    ELSE buckets.vivid
  ELSE IF Less(Number(25), l) THEN
    IF Less(s, Number(30)) THEN buckets.dim
    ELSE IF Less(s, Number(70)) THEN buckets.dark
    ELSE buckets.rich
  ELSE IF Less(s, Number(30)) THEN buckets.charcoal
  ELSE IF Less(s, Number(70)) THEN buckets.deep
  ELSE buckets.inky

getToneName(buckets, s, l, h) == deterministicPick(toneBucket(buckets, s, l), h, s, l)

\* toTokenName lowercasing every character.
toTokenNameAllLower(fullName) ==
  LET kept(c) == c \notin (Whitespace \cup {"-"})
  IN  Bind(SelectSeq(fullName, kept), LAMBDA stripped :
        [i \in 1..Len(stripped) |-> charToLowerCase(stripped[i])])

\* fullName.replace(/[\s-]+/g, "").replace(/^./, c => c.toLowerCase())
toTokenName(fullName) ==
  LET kept(c) == c \notin (Whitespace \cup {"-"})
  IN  Bind(SelectSeq(fullName, kept), LAMBDA stripped :
        IF stripped = <<>> THEN stripped
        ELSE <<charToLowerCase(stripped[1])>> \o Tail(stripped))

classifyHexColor(buckets, h) ==
  Bind(hexToRgb(h), LAMBDA rgb :
    IF rgb.threw THEN [threw |-> TRUE]
    ELSE
      Bind(rgbToHsl(Number(rgb.r), Number(rgb.g), Number(rgb.b)), LAMBDA hsl :
      Bind2(getHueName(hsl.h, hsl.s), getToneName(buckets, hsl.s, hsl.l, hsl.h),
            LAMBDA hueGroup, tone :
      Bind(IF hueGroup = <<"N","e","u","t","r","a","l">>
           THEN tone \o <<" ">> \o <<"N","e","u","t","r","a","l">>
           ELSE tone \o <<" ">> \o hueGroup, LAMBDA fullName :
        [threw |-> FALSE, fullName |-> fullName, tokenName |-> toTokenName(fullName),
         tone |-> tone, hueGroup |-> hueGroup, hsl |-> hsl]))))

(***************************************************************************)
(* colorPalette.ts                                                         *)
(***************************************************************************)
stepValues == <<50, 100, 200, 300, 400, 500, 600, 700, 800, 900>>

lightnessSteps == <<95, 90, 80, 65, 50, 40, 30, 20, 12, 8>>

\* scanClosest with "diff <= minDiff": a later index wins a tie.
RECURSIVE scanClosestLastWins(_, _, _, _)
scanClosestLastWins(l, i0, closestIndex0, minDiff0) ==
  Bind3(i0, closestIndex0, minDiff0, LAMBDA i, closestIndex, minDiff :
    IF i >= Len(lightnessSteps) THEN closestIndex
    ELSE Bind(MathAbs(Minus(l, Number(lightnessSteps[i + 1]))), LAMBDA diff :
           IF LessEq(diff, minDiff)
           THEN scanClosestLastWins(l, i + 1, i, diff)
           ELSE scanClosestLastWins(l, i + 1, closestIndex, minDiff)))

\* The loop "for (let i = 1; i < lightnessSteps.length; i++)" of
\* generateColorPalette from its iteration i on; indices count from 0.
RECURSIVE scanClosest(_, _, _, _)
scanClosest(l, i0, closestIndex0, minDiff0) ==
  Bind3(i0, closestIndex0, minDiff0, LAMBDA i, closestIndex, minDiff :
    IF i >= Len(lightnessSteps) THEN closestIndex
    ELSE Bind(MathAbs(Minus(l, Number(lightnessSteps[i + 1]))), LAMBDA diff :
           IF Less(diff, minDiff)
           THEN scanClosest(l, i + 1, i, diff)
           ELSE scanClosest(l, i + 1, closestIndex, minDiff)))

\* findClosestIndex without the loop: closestIndex keeps its initial value.
findClosestIndexUnscanned(l) == 0

findClosestIndex(l) ==
  scanClosest(l, 1, 0, MathAbs(Minus(l, Number(lightnessSteps[1]))))

\* stepSaturation with the darkening threshold off by one ("i >= 7").
stepSaturationFromSeven(s0, i) ==
  Bind(IF i < 2 THEN Times(s0, Divide(Number(3), Number(10))) ELSE s0, LAMBDA s1 :
    IF i >= 7 THEN MathMin(Times(s1, Divide(Number(12), Number(10))), Number(100)) ELSE s1)

\* The saturation a synthesized step at index i is given.
stepSaturation(s0, i) ==
  Bind(IF i < 2 THEN Times(s0, Divide(Number(3), Number(10))) ELSE s0, LAMBDA s1 :
    IF i > 7 THEN MathMin(Times(s1, Divide(Number(12), Number(10))), Number(100)) ELSE s1)

\* stepHexAt with the chosen step re-encoded from its channels instead of
\* passed through.
stepHexAtReencoded(h, baseHsl, closestIndex, i) ==
  IF i = closestIndex
  THEN Bind(hexToRgb(h), LAMBDA rgb :
         rgbToHex(Number(rgb.r), Number(rgb.g), Number(rgb.b)))
  ELSE hslToHex(baseHsl.h, stepSaturation(baseHsl.s, i), Number(lightnessSteps[i + 1]))

\* stepHexAt with a '#' put before the uppercased input.
stepHexAtHashed(h, baseHsl, closestIndex, i) ==
  IF i = closestIndex THEN <<"#">> \o toUpperCase(h)
  ELSE hslToHex(baseHsl.h, stepSaturation(baseHsl.s, i), Number(lightnessSteps[i + 1]))

\* stepHex of iteration i of the loop that builds the steps.
stepHexAt(h, baseHsl, closestIndex, i) ==
  IF i = closestIndex THEN toUpperCase(h)
  ELSE hslToHex(baseHsl.h, stepSaturation(baseHsl.s, i), Number(lightnessSteps[i + 1]))

\* getLuminanceHex parses its argument with hexToRgb, and so does
\* getContrastRatio for both of its arguments: it completes when neither throws.
contrastCompletes(a, b) == ~hexToRgb(a).threw /\ ~hexToRgb(b).threw

\* The greatest double below x > 0, and the least double above it.
PreviousDouble(x) ==
  IF x[3] = TwoTo52
  THEN <<x[1], x[2] - 1, carryFrom(<<-1, 0, 0, 2^11>>, 1, 0, <<>>)[1]>>
  ELSE <<x[1], x[2], carryFrom(x[3], 1, -1, <<>>)[1]>>

NextDouble(x) ==
  Bind(carryFrom(x[3], 1, 1, <<>>)[1], LAMBDA up :
    IF up = TwoTo53 THEN <<x[1], x[2] + 1, TwoTo52>> ELSE <<x[1], x[2], up>>)

\* The decimal literal n/d of the source: the double nearest to it.
Literal(n, d) == Divide(Number(n), Number(d))

\* The decimal literals of colorPalette.ts: 0.03928, 12.92, 0.055, 1.055,
\* 0.2126, 0.7152, 0.0722, 0.05 and 4.5.
D0_03928 == Literal(3928, 100000)

D12_92 == Literal(1292, 100)

D0_055 == Literal(55, 1000)

D1_055 == Literal(1055, 1000)

D0_2126 == Literal(2126, 10000)

D0_7152 == Literal(7152, 10000)

D0_0722 == Literal(722, 10000)

D0_05 == Literal(5, 100)

D4_5 == Literal(45, 10)

\* The ways a build's Math.pow rounds a power that is not a double: to the
\* double below it or to the double above it.
PowRoundings == {"down", "up"}

\* Math.pow(x, 2.4) for each x that channel passes it, one row per channel
\* value 11..255 in order: <<x, the greatest double not above x^2.4>>, with
\* 2.4 the double that the literal denotes.  Only the last power (x = 1) is
\* a double itself.
PowerTable ==
  <<
    <<<<1, -56, <<2448, 15921, 943, 1524>>>>, <<1, -61, <<7320, 5270, 8987, 1754>>>>>>,
    <<<<1, -56, <<4787, 9208, 15712, 1584>>>>, <<1, -61, <<6621, 7218, 8989, 1927>>>>>>,
    <<<<1, -56, <<7128, 2495, 14097, 1645>>>>, <<1, -60, <<936, 15894, 907, 1055>>>>>>,
    <<<<1, -56, <<9467, 12166, 12481, 1706>>>>, <<1, -60, <<9249, 15285, 3115, 1151>>>>>>,
    <<<<1, -56, <<11808, 5453, 10866, 1767>>>>, <<1, -60, <<8824, 15959, 4090, 1252>>>>>>,
    <<<<1, -56, <<14147, 15124, 9250, 1828>>>>, <<1, -60, <<2343, 12783, 4972, 1358>>>>>>,
    <<<<1, -56, <<104, 8412, 7635, 1889>>>>, <<1, -60, <<2324, 11587, 6877, 1469>>>>>>,
    <<<<1, -56, <<2444, 1699, 6020, 1950>>>>, <<1, -60, <<13665, 198, 10900, 1585>>>>>>,
    <<<<1, -56, <<4785, 11370, 4404, 2011>>>>, <<1, -60, <<13136, 16101, 1728, 1707>>>>>>,
    <<<<1, -55, <<11754, 10520, 1394, 1036>>>>, <<1, -60, <<8235, 15997, 13185, 1833>>>>>>,
    <<<<1, -55, <<4733, 15356, 8778, 1066>>>>, <<1, -60, <<14543, 6181, 13537, 1965>>>>>>,
    <<<<1, -55, <<14094, 3807, 16163, 1096>>>>, <<1, -59, <<4792, 12138, 10091, 1051>>>>>>,
    <<<<1, -55, <<7073, 8643, 7163, 1127>>>>, <<1, -59, <<68, 10794, 677, 1123>>>>>>,
    <<<<1, -55, <<50, 13479, 14547, 1157>>>>, <<1, -59, <<2786, 11516, 3593, 1197>>>>>>,
    <<<<1, -55, <<9413, 1930, 5548, 1188>>>>, <<1, -59, <<10596, 3831, 2939, 1274>>>>>>,
    <<<<1, -55, <<2390, 6766, 12932, 1218>>>>, <<1, -59, <<2949, 702, 15574, 1353>>>>>>,
    <<<<1, -55, <<11753, 11601, 3932, 1249>>>>, <<1, -59, <<14088, 10804, 9198, 1436>>>>>>,
    <<<<1, -55, <<4731, 53, 11317, 1279>>>>, <<1, -59, <<14003, 10486, 658, 1522>>>>>>,
    <<<<1, -55, <<14093, 4888, 2317, 1310>>>>, <<1, -59, <<13600, 13726, 6792, 1610>>>>>>,
    <<<<1, -55, <<7071, 9724, 9701, 1340>>>>, <<1, -59, <<5820, 10752, 11665, 1701>>>>>>,
    <<<<1, -55, <<49, 14560, 701, 1371>>>>, <<1, -59, <<15030, 4711, 15719, 1795>>>>>>,
    <<<<1, -55, <<9411, 3011, 8086, 1401>>>>, <<1, -59, <<13325, 15349, 3005, 1893>>>>>>,
    <<<<1, -55, <<2389, 7847, 15470, 1431>>>>, <<1, -59, <<2110, 550, 6724, 1993>>>>>>,
    <<<<1, -55, <<11751, 12682, 6470, 1462>>>>, <<1, -58, <<1683, 3531, 5457, 1048>>>>>>,
    <<<<1, -55, <<4730, 1134, 13855, 1492>>>>, <<1, -58, <<3298, 4875, 7998, 1101>>>>>>,
    <<<<1, -55, <<14091, 5969, 4855, 1523>>>>, <<1, -58, <<12658, 6410, 3000, 1156>>>>>>,
    <<<<1, -55, <<7070, 10805, 12239, 1553>>>>, <<1, -58, <<1724, 1721, 7052, 1212>>>>>>,
    <<<<1, -55, <<47, 15641, 3239, 1584>>>>, <<1, -58, <<7179, 9950, 3971, 1270>>>>>>,
    <<<<1, -55, <<9410, 4092, 10624, 1614>>>>, <<1, -58, <<8099, 11514, 10342, 1329>>>>>>,
    <<<<1, -55, <<2387, 8928, 1624, 1645>>>>, <<1, -58, <<787, 14821, 9978, 1390>>>>>>,
    <<<<1, -55, <<11750, 13763, 9008, 1675>>>>, <<1, -58, <<11758, 8244, 3075, 1453>>>>>>,
    <<<<1, -55, <<4728, 2215, 9, 1706>>>>, <<1, -58, <<13228, 10351, 6209, 1517>>>>>>,
    <<<<1, -55, <<14090, 7050, 7393, 1736>>>>, <<1, -58, <<11738, 5386, 3188, 1583>>>>>>,
    <<<<1, -55, <<7068, 11886, 14777, 1766>>>>, <<1, -58, <<2228, 9783, 10584, 1650>>>>>>,
    <<<<1, -55, <<46, 338, 5778, 1797>>>>, <<1, -58, <<31, 7559, 12201, 1719>>>>>>,
    <<<<1, -55, <<9408, 5173, 13162, 1827>>>>, <<1, -58, <<15321, 357, 8224, 1790>>>>>>,
    <<<<1, -55, <<2386, 10009, 4162, 1858>>>>, <<1, -58, <<11295, 8299, 15219, 1862>>>>>>,
    <<<<1, -55, <<11748, 14844, 11546, 1888>>>>, <<1, -58, <<15306, 5257, 601, 1937>>>>>>,
    <<<<1, -55, <<4727, 3296, 2547, 1919>>>>, <<1, -58, <<8629, 1559, 13701, 2012>>>>>>,
    <<<<1, -55, <<14089, 8131, 9931, 1949>>>>, <<1, -57, <<10359, 5981, 2772, 1045>>>>>>,
    <<<<1, -55, <<7067, 12967, 931, 1980>>>>, <<1, -57, <<16166, 3611, 12730, 1084>>>>>>,
    <<<<1, -55, <<44, 1419, 8316, 2010>>>>, <<1, -57, <<13434, 6541, 4043, 1125>>>>>>,
    <<<<1, -55, <<9408, 6254, 15700, 2040>>>>, <<1, -57, <<9770, 6313, 9566, 1166>>>>>>,
    <<<<1, -54, <<1193, 5545, 11542, 1035>>>>, <<1, -57, <<3344, 14418, 13000, 1208>>>>>>,
    <<<<1, -54, <<14066, 7962, 15234, 1050>>>>, <<1, -57, <<10959, 13447, 14431, 1251>>>>>>,
    <<<<1, -54, <<10554, 10380, 2542, 1066>>>>, <<1, -57, <<4350, 6540, 13943, 1295>>>>>>,
    <<<<1, -54, <<7044, 12798, 6234, 1081>>>>, <<1, -57, <<10447, 1278, 11619, 1340>>>>>>,
    <<<<1, -54, <<3533, 15216, 9926, 1096>>>>, <<1, -57, <<7887, 9961, 7541, 1386>>>>>>,
    <<<<1, -54, <<22, 1250, 13619, 1111>>>>, <<1, -57, <<5358, 713, 1793, 1433>>>>>>,
    <<<<1, -54, <<12894, 3667, 927, 1127>>>>, <<1, -57, <<14830, 12424, 10838, 1480>>>>>>,
    <<<<1, -54, <<9384, 6085, 4619, 1142>>>>, <<1, -57, <<9255, 7540, 1991, 1529>>>>>>,
    <<<<1, -54, <<5873, 8503, 8311, 1157>>>>, <<1, -57, <<2823, 3365, 8099, 1578>>>>>>,
    <<<<1, -54, <<2362, 10921, 12003, 1172>>>>, <<1, -57, <<14796, 6754, 12857, 1628>>>>>>,
    <<<<1, -54, <<15235, 13338, 15695, 1187>>>>, <<1, -57, <<5001, 14336, 16344, 1679>>>>>>,
    <<<<1, -54, <<11723, 15756, 3003, 1203>>>>, <<1, -57, <<16316, 12717, 2255, 1732>>>>>>,
    <<<<1, -54, <<8213, 1790, 6696, 1218>>>>, <<1, -57, <<5410, 11463, 3435, 1785>>>>>>,
    <<<<1, -54, <<4702, 4208, 10388, 1233>>>>, <<1, -57, <<5874, 10520, 3577, 1839>>>>>>,
    <<<<1, -54, <<1191, 6626, 14080, 1248>>>>, <<1, -57, <<6194, 413, 2758, 1894>>>>>>,
    <<<<1, -54, <<14064, 9043, 1388, 1264>>>>, <<1, -57, <<5854, 11580, 1052, 1950>>>>>>,
    <<<<1, -54, <<10553, 11461, 5080, 1279>>>>, <<1, -57, <<8263, 16248, 14920, 2006>>>>>>,
    <<<<1, -54, <<7042, 13879, 8772, 1294>>>>, <<1, -56, <<1892, 13456, 5834, 1032>>>>>>,
    <<<<1, -54, <<3531, 16297, 12464, 1309>>>>, <<1, -56, <<14357, 7290, 12070, 1061>>>>>>,
    <<<<1, -54, <<20, 2331, 16157, 1324>>>>, <<1, -56, <<4497, 3625, 9820, 1091>>>>>>,
    <<<<1, -54, <<12893, 4748, 3465, 1340>>>>, <<1, -56, <<15586, 12258, 15504, 1121>>>>>>,
    <<<<1, -54, <<9382, 7166, 7157, 1355>>>>, <<1, -56, <<5850, 6103, 12776, 1152>>>>>>,
    <<<<1, -54, <<5871, 9584, 10849, 1370>>>>, <<1, -56, <<6482, 3176, 1671, 1184>>>>>>,
    <<<<1, -54, <<2360, 12002, 14541, 1385>>>>, <<1, -56, <<14667, 1138, 14993, 1215>>>>>>,
    <<<<1, -54, <<15234, 14419, 1849, 1401>>>>, <<1, -56, <<16273, 10132, 3625, 1248>>>>>>,
    <<<<1, -54, <<11722, 453, 5542, 1416>>>>, <<1, -56, <<8463, 3698, 372, 1281>>>>>>,
    <<<<1, -54, <<8211, 2871, 9234, 1431>>>>, <<1, -56, <<7162, 759, 5268, 1314>>>>>>,
    <<<<1, -54, <<4700, 5289, 12926, 1446>>>>, <<1, -56, <<7769, 152, 1964, 1348>>>>>>,
    <<<<1, -54, <<1190, 7707, 234, 1462>>>>, <<1, -56, <<15019, 13457, 6878, 1382>>>>>>,
    <<<<1, -54, <<14063, 10124, 3926, 1477>>>>, <<1, -56, <<11988, 15908, 3662, 1417>>>>>>,
    <<<<1, -54, <<10551, 12542, 7618, 1492>>>>, <<1, -56, <<381, 11986, 8734, 1452>>>>>>,
    <<<<1, -54, <<7040, 14960, 11310, 1507>>>>, <<1, -56, <<14800, 2708, 5744, 1488>>>>>>,
    <<<<1, -54, <<3530, 994, 15003, 1522>>>>, <<1, -56, <<13607, 2074, 11109, 1524>>>>>>,
    <<<<1, -54, <<19, 3412, 2311, 1538>>>>, <<1, -56, <<7785, 4346, 8479, 1561>>>>>>,
    <<<<1, -54, <<12892, 5829, 6003, 1553>>>>, <<1, -56, <<2671, 489, 14272, 1598>>>>>>,
    <<<<1, -54, <<9380, 8247, 9695, 1568>>>>, <<1, -56, <<15497, 10990, 12136, 1636>>>>>>,
    <<<<1, -54, <<5870, 10665, 13387, 1583>>>>, <<1, -56, <<5740, 3993, 2106, 1675>>>>>>,
    <<<<1, -54, <<2359, 13083, 695, 1599>>>>, <<1, -56, <<13892, 10028, 597, 1714>>>>>>,
    <<<<1, -54, <<15232, 15500, 4387, 1614>>>>, <<1, -56, <<1540, 7381, 7643, 1753>>>>>>,
    <<<<1, -54, <<11720, 1534, 8080, 1629>>>>, <<1, -56, <<15965, 4051, 6892, 1793>>>>>>,
    <<<<1, -54, <<8210, 3952, 11772, 1644>>>>, <<1, -56, <<8239, 5039, 14760, 1833>>>>>>,
    <<<<1, -54, <<4699, 6370, 15464, 1659>>>>, <<1, -56, <<9893, 12382, 14895, 1874>>>>>>,
    <<<<1, -54, <<1188, 8788, 2772, 1675>>>>, <<1, -56, <<13495, 8820, 7330, 1916>>>>>>,
    <<<<1, -54, <<14061, 11205, 6464, 1690>>>>, <<1, -56, <<3, 6989, 8480, 1958>>>>>>,
    <<<<1, -54, <<10550, 13623, 10156, 1705>>>>, <<1, -56, <<15181, 306, 1993, 2001>>>>>>,
    <<<<1, -54, <<7039, 16041, 13848, 1720>>>>, <<1, -56, <<706, 12172, 4283, 2044>>>>>>,
    <<<<1, -54, <<3528, 2075, 1157, 1736>>>>, <<1, -55, <<9713, 15231, 15883, 1043>>>>>>,
    <<<<1, -54, <<17, 4493, 4849, 1751>>>>, <<1, -55, <<11663, 3789, 1278, 1066>>>>>>,
    <<<<1, -54, <<12891, 6910, 8541, 1766>>>>, <<1, -55, <<110, 3967, 7492, 1088>>>>>>,
    <<<<1, -54, <<9379, 9328, 12233, 1781>>>>, <<1, -55, <<12255, 5691, 1773, 1111>>>>>>,
    <<<<1, -54, <<5868, 11746, 15925, 1796>>>>, <<1, -55, <<16112, 13975, 520, 1134>>>>>>,
    <<<<1, -54, <<2357, 14164, 3233, 1812>>>>, <<1, -55, <<4426, 16165, 3749, 1157>>>>>>,
    <<<<1, -54, <<15231, 197, 6926, 1827>>>>, <<1, -55, <<291, 14724, 11475, 1180>>>>>>,
    <<<<1, -54, <<11719, 2615, 10618, 1842>>>>, <<1, -55, <<7419, 10868, 7329, 1204>>>>>>,
    <<<<1, -54, <<8208, 5033, 14310, 1857>>>>, <<1, -55, <<3572, 4583, 7710, 1228>>>>>>,
    <<<<1, -54, <<4697, 7451, 1618, 1873>>>>, <<1, -55, <<10061, 11021, 12632, 1252>>>>>>,
    <<<<1, -54, <<1187, 9869, 5310, 1888>>>>, <<1, -55, <<8149, 11369, 5727, 1277>>>>>>,
    <<<<1, -54, <<14060, 12286, 9002, 1903>>>>, <<1, -55, <<13791, 2012, 3394, 1302>>>>>>,
    <<<<1, -54, <<10548, 14704, 12694, 1918>>>>, <<1, -55, <<15986, 10936, 5646, 1327>>>>>>,
    <<<<1, -54, <<7037, 738, 3, 1934>>>>, <<1, -55, <<8243, 15821, 12499, 1352>>>>>>,
    <<<<1, -54, <<3527, 3156, 3695, 1949>>>>, <<1, -55, <<15009, 9590, 7584, 1378>>>>>>,
    <<<<1, -54, <<16, 5574, 7387, 1964>>>>, <<1, -55, <<14907, 428, 7299, 1404>>>>>>,
    <<<<1, -54, <<12889, 7991, 11079, 1979>>>>, <<1, -55, <<6699, 11792, 11657, 1430>>>>>>,
    <<<<1, -54, <<9377, 10409, 14771, 1994>>>>, <<1, -55, <<5055, 505, 4291, 1457>>>>>>,
    <<<<1, -54, <<5868, 12827, 2079, 2010>>>>, <<1, -55, <<15487, 4227, 1597, 1484>>>>>>,
    <<<<1, -54, <<2357, 15245, 5771, 2025>>>>, <<1, -55, <<4866, 10398, 3590, 1511>>>>>>,
    <<<<1, -54, <<15230, 1278, 9464, 2040>>>>, <<1, -55, <<15196, 5396, 10285, 1538>>>>>>,
    <<<<1, -53, <<5859, 1848, 14770, 1027>>>>, <<1, -55, <<11071, 7327, 5311, 1566>>>>>>,
    <<<<1, -53, <<4104, 3057, 8424, 1035>>>>, <<1, -55, <<1657, 494, 5067, 1594>>>>>>,
    <<<<1, -53, <<2348, 4266, 2078, 1043>>>>, <<1, -55, <<11274, 947, 9566, 1622>>>>>>,
    <<<<1, -53, <<592, 5475, 12116, 1050>>>>, <<1, -55, <<13437, 7347, 2438, 1651>>>>>>,
    <<<<1, -53, <<15221, 6683, 5770, 1058>>>>, <<1, -55, <<8603, 973, 82, 1680>>>>>>,
    <<<<1, -53, <<13466, 7892, 15808, 1065>>>>, <<1, -55, <<2, 11271, 2510, 1709>>>>>>,
    <<<<1, -53, <<11711, 9101, 9462, 1073>>>>, <<1, -55, <<15114, 1176, 9738, 1738>>>>>>,
    <<<<1, -53, <<9955, 10310, 3116, 1081>>>>, <<1, -55, <<9004, 14585, 5393, 1768>>>>>>,
    <<<<1, -53, <<8199, 11519, 13154, 1088>>>>, <<1, -55, <<10095, 12519, 5875, 1798>>>>>>,
    <<<<1, -53, <<6444, 12728, 6808, 1096>>>>, <<1, -55, <<510, 4213, 11197, 1828>>>>>>,
    <<<<1, -53, <<4688, 13937, 462, 1104>>>>, <<1, -55, <<6225, 14353, 4987, 1859>>>>>>,
    <<<<1, -53, <<2934, 15146, 10500, 1111>>>>, <<1, -55, <<3943, 1172, 3645, 1890>>>>>>,
    <<<<1, -53, <<1178, 16355, 4154, 1119>>>>, <<1, -55, <<5087, 3911, 7182, 1921>>>>>>,
    <<<<1, -53, <<15806, 1179, 14193, 1126>>>>, <<1, -55, <<5872, 11760, 15612, 1952>>>>>>,
    <<<<1, -53, <<14051, 2388, 7847, 1134>>>>, <<1, -55, <<16339, 13018, 12565, 1984>>>>>>,
    <<<<1, -53, <<12295, 3597, 1501, 1142>>>>, <<1, -55, <<4684, 11490, 14438, 2016>>>>>>,
    <<<<1, -53, <<10540, 4806, 11539, 1149>>>>, <<1, -54, <<1362, 5053, 10622, 1024>>>>>>,
    <<<<1, -53, <<8784, 6015, 5193, 1157>>>>, <<1, -54, <<6010, 5468, 114, 1041>>>>>>,
    <<<<1, -53, <<7028, 7224, 15231, 1164>>>>, <<1, -54, <<11065, 15791, 8469, 1057>>>>>>,
    <<<<1, -53, <<5274, 8433, 8885, 1172>>>>, <<1, -54, <<13149, 11633, 2927, 1074>>>>>>,
    <<<<1, -53, <<3518, 9642, 2539, 1180>>>>, <<1, -54, <<921, 956, 16262, 1090>>>>>>,
    <<<<1, -53, <<1762, 10851, 12577, 1187>>>>, <<1, -54, <<9638, 7690, 15711, 1107>>>>>>,
    <<<<1, -53, <<7, 12060, 6231, 1195>>>>, <<1, -54, <<10647, 6208, 1282, 1125>>>>>>,
    <<<<1, -53, <<14635, 13268, 16269, 1202>>>>, <<1, -54, <<12720, 3244, 5749, 1142>>>>>>,
    <<<<1, -53, <<12880, 14477, 9923, 1210>>>>, <<1, -54, <<14822, 5132, 12734, 1159>>>>>>,
    <<<<1, -53, <<11124, 15686, 3577, 1218>>>>, <<1, -54, <<6883, 1426, 5860, 1177>>>>>>,
    <<<<1, -53, <<9368, 511, 13616, 1225>>>>, <<1, -54, <<2296, 14054, 1516, 1195>>>>>>,
    <<<<1, -53, <<7614, 1720, 7270, 1233>>>>, <<1, -54, <<3800, 15404, 16094, 1212>>>>>>,
    <<<<1, -53, <<5858, 2929, 924, 1241>>>>, <<1, -54, <<1080, 10248, 448, 1231>>>>>>,
    <<<<1, -53, <<4103, 4138, 10962, 1248>>>>, <<1, -54, <<176, 2976, 3736, 1249>>>>>>,
    <<<<1, -53, <<2347, 5347, 4616, 1256>>>>, <<1, -54, <<2688, 13985, 9579, 1267>>>>>>,
    <<<<1, -53, <<591, 6556, 14654, 1263>>>>, <<1, -54, <<444, 14147, 1601, 1286>>>>>>,
    <<<<1, -53, <<15220, 7764, 8308, 1271>>>>, <<1, -54, <<1966, 6731, 12576, 1304>>>>>>,
    <<<<1, -53, <<13464, 8973, 1962, 1279>>>>, <<1, -54, <<8860, 11024, 9741, 1323>>>>>>,
    <<<<1, -53, <<11709, 10182, 12000, 1286>>>>, <<1, -54, <<7701, 13183, 9487, 1342>>>>>>,
    <<<<1, -53, <<9954, 11391, 5654, 1294>>>>, <<1, -54, <<10152, 15388, 11820, 1361>>>>>>,
    <<<<1, -53, <<8198, 12600, 15692, 1301>>>>, <<1, -54, <<10327, 3080, 363, 1381>>>>>>,
    <<<<1, -53, <<6443, 13809, 9346, 1309>>>>, <<1, -54, <<6827, 10499, 7888, 1400>>>>>>,
    <<<<1, -53, <<4687, 15018, 3000, 1317>>>>, <<1, -54, <<7546, 5999, 1635, 1420>>>>>>,
    <<<<1, -53, <<2932, 16227, 13038, 1324>>>>, <<1, -54, <<930, 6741, 14377, 1439>>>>>>,
    <<<<1, -53, <<1176, 1052, 6693, 1332>>>>, <<1, -54, <<8313, 13157, 13352, 1459>>>>>>,
    <<<<1, -53, <<15804, 2260, 347, 1340>>>>, <<1, -54, <<4444, 8958, 14951, 1479>>>>>>,
    <<<<1, -53, <<14049, 3469, 10385, 1347>>>>, <<1, -54, <<1065, 10284, 2795, 1500>>>>>>,
    <<<<1, -53, <<12294, 4678, 4039, 1355>>>>, <<1, -54, <<15045, 173, 9659, 1520>>>>>>,
    <<<<1, -53, <<10539, 5887, 14077, 1362>>>>, <<1, -54, <<3032, 10488, 2779, 1541>>>>>>,
    <<<<1, -53, <<8783, 7096, 7731, 1370>>>>, <<1, -54, <<8368, 7223, 14931, 1561>>>>>>,
    <<<<1, -53, <<7027, 8305, 1385, 1378>>>>, <<1, -54, <<12390, 5203, 13352, 1582>>>>>>,
    <<<<1, -53, <<5272, 9514, 11423, 1385>>>>, <<1, -54, <<14413, 2546, 14432, 1603>>>>>>,
    <<<<1, -53, <<3516, 10723, 5077, 1393>>>>, <<1, -54, <<12721, 13435, 1792, 1625>>>>>>,
    <<<<1, -53, <<1761, 11932, 15115, 1400>>>>, <<1, -54, <<1312, 2585, 8208, 1646>>>>>>,
    <<<<1, -53, <<5, 13141, 8769, 1408>>>>, <<1, -54, <<15101, 16315, 915, 1668>>>>>>,
    <<<<1, -53, <<14634, 14349, 2423, 1416>>>>, <<1, -54, <<10686, 2334, 12690, 1689>>>>>>,
    <<<<1, -53, <<12879, 15558, 12461, 1423>>>>, <<1, -54, <<8597, 6343, 10768, 1711>>>>>>,
    <<<<1, -53, <<11123, 383, 6116, 1431>>>>, <<1, -54, <<5578, 8203, 11540, 1733>>>>>>,
    <<<<1, -53, <<9367, 1592, 16154, 1438>>>>, <<1, -54, <<955, 3856, 15012, 1755>>>>>>,
    <<<<1, -53, <<7612, 2801, 9808, 1446>>>>, <<1, -54, <<6020, 5327, 4805, 1778>>>>>>,
    <<<<1, -53, <<5856, 4010, 3462, 1454>>>>, <<1, -54, <<3676, 7961, 13693, 1800>>>>>>,
    <<<<1, -53, <<4101, 5219, 13500, 1461>>>>, <<1, -54, <<5854, 6806, 8914, 1823>>>>>>,
    <<<<1, -53, <<2345, 6428, 7154, 1469>>>>, <<1, -54, <<12017, 13002, 6857, 1846>>>>>>,
    <<<<1, -53, <<590, 7637, 808, 1477>>>>, <<1, -54, <<16324, 4631, 7529, 1869>>>>>>,
    <<<<1, -53, <<15219, 8845, 10846, 1484>>>>, <<1, -54, <<14209, 8639, 10934, 1892>>>>>>,
    <<<<1, -53, <<13463, 10054, 4500, 1492>>>>, <<1, -54, <<8460, 2534, 695, 1916>>>>>>,
    <<<<1, -53, <<11708, 11263, 14538, 1499>>>>, <<1, -54, <<14788, 12692, 9584, 1939>>>>>>,
    <<<<1, -53, <<9952, 12472, 8192, 1507>>>>, <<1, -54, <<1317, 16059, 4840, 1963>>>>>>,
    <<<<1, -53, <<8196, 13681, 1846, 1515>>>>, <<1, -54, <<7844, 5682, 2853, 1987>>>>>>,
    <<<<1, -53, <<6441, 14890, 11884, 1522>>>>, <<1, -54, <<2434, 7104, 3627, 2011>>>>>>,
    <<<<1, -53, <<4685, 16099, 5538, 1530>>>>, <<1, -54, <<16066, 12822, 7168, 2035>>>>>>,
    <<<<1, -53, <<2931, 924, 15577, 1537>>>>, <<1, -53, <<15537, 7532, 14933, 1029>>>>>>,
    <<<<1, -53, <<1175, 2133, 9231, 1545>>>>, <<1, -53, <<75, 11087, 3095, 1042>>>>>>,
    <<<<1, -53, <<15803, 3341, 2885, 1553>>>>, <<1, -53, <<6199, 12918, 9033, 1054>>>>>>,
    <<<<1, -53, <<14048, 4550, 12923, 1560>>>>, <<1, -53, <<79, 8739, 16366, 1066>>>>>>,
    <<<<1, -53, <<12292, 5759, 6577, 1568>>>>, <<1, -53, <<1224, 10513, 8712, 1079>>>>>>,
    <<<<1, -53, <<10537, 6968, 231, 1576>>>>, <<1, -53, <<1002, 13690, 2458, 1092>>>>>>,
    <<<<1, -53, <<8781, 8177, 10269, 1583>>>>, <<1, -53, <<12014, 13589, 13991, 1104>>>>>>,
    <<<<1, -53, <<7025, 9386, 3923, 1591>>>>, <<1, -53, <<2577, 5403, 10546, 1117>>>>>>,
    <<<<1, -53, <<5271, 10595, 13961, 1598>>>>, <<1, -53, <<11226, 577, 8509, 1130>>>>>>,
    <<<<1, -53, <<3515, 11804, 7615, 1606>>>>, <<1, -53, <<15236, 10433, 7882, 1143>>>>>>,
    <<<<1, -53, <<1760, 13013, 1269, 1614>>>>, <<1, -53, <<11981, 13398, 8669, 1156>>>>>>,
    <<<<1, -53, <<4, 14222, 11307, 1621>>>>, <<1, -53, <<1745, 4158, 10873, 1169>>>>>>,
    <<<<1, -53, <<14632, 15430, 4961, 1629>>>>, <<1, -53, <<3146, 10042, 14495, 1182>>>>>>,
    <<<<1, -53, <<12877, 255, 15000, 1636>>>>, <<1, -53, <<2823, 9106, 3155, 1196>>>>>>,
    <<<<1, -53, <<11121, 1464, 8654, 1644>>>>, <<1, -53, <<3231, 12051, 9623, 1209>>>>>>,
    <<<<1, -53, <<9366, 2673, 2308, 1652>>>>, <<1, -53, <<4748, 13073, 1134, 1223>>>>>>,
    <<<<1, -53, <<7611, 3882, 12346, 1659>>>>, <<1, -53, <<3954, 6248, 10459, 1236>>>>>>,
    <<<<1, -53, <<5855, 5091, 6000, 1667>>>>, <<1, -53, <<8140, 1916, 4832, 1250>>>>>>,
    <<<<1, -53, <<4100, 6300, 16038, 1674>>>>, <<1, -53, <<491, 10300, 639, 1264>>>>>>,
    <<<<1, -53, <<2344, 7509, 9692, 1682>>>>, <<1, -53, <<3386, 8735, 14268, 1277>>>>>>,
    <<<<1, -53, <<588, 8718, 3346, 1690>>>>, <<1, -53, <<10487, 7209, 12953, 1291>>>>>>,
    <<<<1, -53, <<15217, 9926, 13384, 1697>>>>, <<1, -53, <<556, 15595, 13080, 1305>>>>>>,
    <<<<1, -53, <<13461, 11135, 7038, 1705>>>>, <<1, -53, <<274, 10880, 14653, 1319>>>>>>,
    <<<<1, -53, <<11706, 12344, 692, 1713>>>>, <<1, -53, <<15840, 2706, 1290, 1334>>>>>>,
    <<<<1, -53, <<9951, 13553, 10730, 1720>>>>, <<1, -53, <<13541, 604, 5761, 1348>>>>>>,
    <<<<1, -53, <<8195, 14762, 4384, 1728>>>>, <<1, -53, <<14875, 13989, 11684, 1362>>>>>>,
    <<<<1, -53, <<6440, 15971, 14422, 1735>>>>, <<1, -53, <<11299, 3014, 2680, 1377>>>>>>,
    <<<<1, -53, <<4684, 796, 8077, 1743>>>>, <<1, -53, <<9880, 9640, 11517, 1391>>>>>>,
    <<<<1, -53, <<2929, 2005, 1731, 1751>>>>, <<1, -53, <<13292, 10182, 5431, 1406>>>>>>,
    <<<<1, -53, <<1173, 3214, 11769, 1758>>>>, <<1, -53, <<16023, 13614, 808, 1421>>>>>>,
    <<<<1, -53, <<15801, 4422, 5423, 1766>>>>, <<1, -53, <<463, 12418, 14035, 1435>>>>>>,
    <<<<1, -53, <<14046, 5631, 15461, 1773>>>>, <<1, -53, <<14762, 15348, 12346, 1450>>>>>>,
    <<<<1, -53, <<12291, 6840, 9115, 1781>>>>, <<1, -53, <<4785, 14673, 12128, 1465>>>>>>,
    <<<<1, -53, <<10536, 8049, 2769, 1789>>>>, <<1, -53, <<6389, 2550, 13384, 1480>>>>>>,
    <<<<1, -53, <<8780, 9258, 12807, 1796>>>>, <<1, -53, <<9882, 3801, 16115, 1495>>>>>>,
    <<<<1, -53, <<7024, 10467, 6461, 1804>>>>, <<1, -53, <<4578, 10375, 3940, 1511>>>>>>,
    <<<<1, -53, <<5269, 11676, 115, 1812>>>>, <<1, -53, <<6832, 14115, 9630, 1526>>>>>>,
    <<<<1, -53, <<3513, 12885, 10153, 1819>>>>, <<1, -53, <<6023, 6762, 420, 1542>>>>>>,
    <<<<1, -53, <<1758, 14094, 3807, 1827>>>>, <<1, -53, <<8740, 12721, 9079, 1557>>>>>>,
    <<<<1, -53, <<2, 15303, 13845, 1834>>>>, <<1, -53, <<887, 7144, 2843, 1573>>>>>>,
    <<<<1, -53, <<14631, 127, 7500, 1842>>>>, <<1, -53, <<8008, 14231, 14481, 1588>>>>>>,
    <<<<1, -53, <<12876, 1336, 1154, 1850>>>>, <<1, -53, <<8004, 8932, 11229, 1604>>>>>>,
    <<<<1, -53, <<11120, 2545, 11192, 1857>>>>, <<1, -53, <<7588, 15247, 9472, 1620>>>>>>,
    <<<<1, -53, <<9365, 3754, 4846, 1865>>>>, <<1, -53, <<3943, 7925, 9214, 1636>>>>>>,
    <<<<1, -53, <<7609, 4963, 14884, 1872>>>>, <<1, -53, <<11772, 10767, 10456, 1652>>>>>>,
    <<<<1, -53, <<5853, 6172, 8538, 1880>>>>, <<1, -53, <<8351, 14710, 13201, 1668>>>>>>,
    <<<<1, -53, <<4098, 7381, 2192, 1888>>>>, <<1, -53, <<9517, 10591, 1068, 1685>>>>>>,
    <<<<1, -53, <<2342, 8590, 12230, 1895>>>>, <<1, -53, <<14479, 5535, 6827, 1701>>>>>>,
    <<<<1, -53, <<587, 9799, 5884, 1903>>>>, <<1, -53, <<16066, 6571, 14096, 1717>>>>>>,
    <<<<1, -53, <<15216, 11007, 15922, 1910>>>>, <<1, -53, <<10856, 4248, 6494, 1734>>>>>>,
    <<<<1, -53, <<13460, 12216, 9576, 1918>>>>, <<1, -53, <<9207, 5403, 407, 1751>>>>>>,
    <<<<1, -53, <<11705, 13425, 3230, 1926>>>>, <<1, -53, <<12421, 395, 12222, 1767>>>>>>,
    <<<<1, -53, <<9949, 14634, 13268, 1933>>>>, <<1, -53, <<6171, 12258, 9172, 1784>>>>>>,
    <<<<1, -53, <<8193, 15843, 6922, 1941>>>>, <<1, -53, <<3003, 14779, 7645, 1801>>>>>>,
    <<<<1, -53, <<6437, 668, 577, 1949>>>>, <<1, -53, <<2801, 14421, 7643, 1818>>>>>>,
    <<<<1, -53, <<4681, 1877, 10615, 1956>>>>, <<1, -53, <<2314, 1171, 9169, 1835>>>>>>,
    <<<<1, -53, <<2928, 3086, 4269, 1964>>>>, <<1, -53, <<4592, 14076, 12223, 1852>>>>>>,
    <<<<1, -53, <<1172, 4295, 14307, 1971>>>>, <<1, -53, <<11906, 10172, 426, 1870>>>>>>,
    <<<<1, -53, <<15800, 5503, 7961, 1979>>>>, <<1, -53, <<2260, 11942, 6547, 1887>>>>>>,
    <<<<1, -53, <<14045, 6712, 1615, 1987>>>>, <<1, -53, <<4052, 9008, 14205, 1904>>>>>>,
    <<<<1, -53, <<12289, 7921, 11653, 1994>>>>, <<1, -53, <<6821, 7289, 7018, 1922>>>>>>,
    <<<<1, -53, <<10534, 9130, 5307, 2002>>>>, <<1, -53, <<2996, 12615, 1372, 1940>>>>>>,
    <<<<1, -53, <<8778, 10339, 15345, 2009>>>>, <<1, -53, <<13136, 14342, 13654, 1957>>>>>>,
    <<<<1, -53, <<7022, 11548, 8999, 2017>>>>, <<1, -53, <<12821, 1741, 11099, 1975>>>>>>,
    <<<<1, -53, <<5267, 12757, 2653, 2025>>>>, <<1, -53, <<6877, 13146, 10091, 1993>>>>>>,
    <<<<1, -53, <<3511, 13966, 12691, 2032>>>>, <<1, -53, <<5221, 4884, 10635, 2011>>>>>>,
    <<<<1, -53, <<1756, 15175, 6345, 2040>>>>, <<1, -53, <<15026, 15116, 12731, 2029>>>>>>,
    <<<<1, -52, <<0, 0, 0, 1024>>>>, <<1, -52, <<0, 0, 0, 1024>>>>>>
  >>

\* Math.pow(x, 2.4) in a build whose Math.pow rounds as rounding says.
MathPow(x0, rounding) ==
  Bind(x0, LAMBDA x :
    Bind(PowerTable[CHOOSE k \in 1..Len(PowerTable) : PowerTable[k][1] = x][2],
         LAMBDA below :
      IF rounding = "down" \/ x = Number(1) THEN below ELSE NextDouble(below)))

\* The inner channel of getLuminanceHex.
channel(c0, rounding) ==
  Bind(Divide(c0, Number(255)), LAMBDA c :
    IF LessEq(c, D0_03928) THEN Divide(c, D12_92)
    ELSE MathPow(Divide(Plus(c, D0_055), D1_055), rounding))

\* The body of getLuminanceHex, for a string that hexToRgb accepts.
luminance(h, rounding) ==
  Bind(hexToRgb(h), LAMBDA rgb :
    Bind([k \in 1..3 |-> channel(Number(<<rgb.r, rgb.g, rgb.b>>[k]), rounding)],
         LAMBDA linear :
      Plus(Plus(Times(D0_2126, linear[1]), Times(D0_7152, linear[2])),
           Times(D0_0722, linear[3]))))

\* The two strings every step is compared with, and their luminance in each
\* build.
Backgrounds == {<<"#","F","F","F","F","F","F">>, <<"#","0","A","0","A","0","A">>}

BackgroundLuminance ==
  [b \in Backgrounds |-> <<luminance(b, "down"), luminance(b, "up")>>]

\* getLuminanceHex of a string that hexToRgb accepts: a function of its
\* argument, so that of a background is taken from BackgroundLuminance.
getLuminanceHex(h, rounding) ==
  IF h \in Backgrounds
  THEN BackgroundLuminance[h][IF rounding = "down" THEN 1 ELSE 2]
  ELSE luminance(h, rounding)

\* getContrastRatio dividing the first luminance by the second, whichever
\* is the greater.
getContrastRatioUnordered(a, b, rounding) ==
  Bind([k \in 1..2 |-> getLuminanceHex(<<a, b>>[k], rounding)], LAMBDA lum :
    Divide(Plus(lum[1], D0_05), Plus(lum[2], D0_05)))

\* getContrastRatio of two strings that hexToRgb accepts.
getContrastRatio(a, b, rounding) ==
  Bind([k \in 1..2 |-> getLuminanceHex(<<a, b>>[k], rounding)], LAMBDA lum :
    Bind2(lum[1], lum[2], LAMBDA lum1, lum2 :
      Bind2(MathMax(lum1, lum2), MathMin(lum1, lum2), LAMBDA bright, dark :
        Divide(Plus(bright, D0_05), Plus(dark, D0_05)))))

compliance(r0) ==
  Bind(r0, LAMBDA r :
    IF LessEq(Number(7), r) THEN <<"A","A","A">>
    ELSE IF LessEq(D4_5, r) THEN <<"A","A">>
    ELSE <<"F","a","i","l">>)

\* The ColorStep pushed for a step whose hex and flag are in partial.
colorStep(partial0, rounding) ==
  Bind(partial0, LAMBDA partial :
    Bind2(getContrastRatio(partial.hex, <<"#","F","F","F","F","F","F">>, rounding),
          getContrastRatio(partial.hex, <<"#","0","A","0","A","0","A">>, rounding),
          LAMBDA contrastWhite, contrastDark :
      [step |-> partial.step,
       hex |-> partial.hex,
       contrastWhite |-> contrastWhite,
       contrastDark |-> contrastDark,
       wcagWhite |-> compliance(contrastWhite),
       wcagDark |-> compliance(contrastDark),
       isChosenColor |-> partial.isChosenColor]))

\* chosenStepOf returning the array index.
chosenStepOfIndex(closestIndex) == closestIndex

\* chosenStep of the returned palette.
chosenStepOf(closestIndex) == stepValues[closestIndex + 1]

generateColorPalette(buckets, h, rounding) ==
  Bind(classifyHexColor(buckets, h), LAMBDA classification :
    IF classification.threw THEN [threw |-> TRUE, steps |-> <<>>]
    ELSE
      Bind2(classification.hsl, findClosestIndex(classification.hsl.l),
            LAMBDA baseHsl, closestIndex :
      Bind([k \in 1..Len(stepValues) |->
              [step |-> stepValues[k],
               hex |-> stepHexAt(h, baseHsl, closestIndex, k - 1),
               isChosenColor |-> (k - 1 = closestIndex)]], LAMBDA steps :
      Bind({k \in 1..Len(steps) :
              ~(contrastCompletes(steps[k].hex, <<"#","F","F","F","F","F","F">>)
                /\ contrastCompletes(steps[k].hex, <<"#","0","A","0","A","0","A">>))},
           LAMBDA failedAt :
        IF failedAt # {}
        THEN [threw |-> TRUE,
              steps |-> SubSeq(steps, 1, (CHOOSE k \in failedAt :
                                            \A j \in failedAt : k <= j) - 1)]
        ELSE [threw |-> FALSE,
              name |-> classification.fullName,
              tokenName |-> classification.tokenName,
              chosenStep |-> chosenStepOf(closestIndex),
              steps |-> [k \in 1..Len(steps) |-> colorStep(steps[k], rounding)],
              classification |-> classification]))))

(***************************************************************************)
(* The arguments the calls are made with                                   *)
(***************************************************************************)
\* Strings up to this length over StringChars are passed to hexToRgb.
MaxLen == 7

\* Strings up to this length over PipelineChars are passed to
\* classifyHexColor and generateColorPalette.
MaxPipelineLen == 4

\* rgbToHex is called with channels from -MaxExtra to 255 + MaxExtra.
MaxExtra == 3

\* Hues are the multiples of 1/HueDen in [0, 360), and the doubles next to
\* the integers.
HueDen == 4

\* Lightnesses are the multiples of 1/ToneDen in [0, 100], and the doubles
\* next to the bucket limits.
ToneDen == 1

\* The number of entries of ByteSample that six-digit colours are built from.
NBytes == 3

MaxCalls == 3

StringChars == {"#", "5", "c", "F", "g"}

PipelineChars == {"#", "0", "c", "F", "g"}

StringsUpTo(chars, n) == UNION {[1..k -> chars] : k \in 0..n}

ByteSample ==
  <<<<"1","9">>, <<"1","A">>, <<"f","6">>, <<"3","B">>,
    <<"8","2">>, <<"0","0">>, <<"c","8">>, <<"0","a">>>>

OptionalHash == {<<>>, <<"#">>}

SixDigitInputs ==
  {p \o ByteSample[i] \o ByteSample[j] \o ByteSample[k] :
     p \in OptionalHash, i \in 1..NBytes, j \in 1..NBytes, k \in 1..NBytes}

\* Every '#' followed by three characters of [0-9A-Fa-f].
ShorthandInputs == {<<"#", a, b, c>> : a \in HexChars, b \in HexChars, c \in HexChars}

OtherInputs ==
  {<<"n","o","t","a","c","o","l","o","r">>,
   <<"#","1","2","3","4","5">>,
   <<"#","1","2","3","4","5","6","7">>,
   <<"#","G","G","G","G","G","G">>,
   <<"#","1","2","3","4","5","G">>,
   <<"#","#","F","F","F","F","F","F">>,
   <<" ","#","F","F","F","F","F","F">>,
   <<"#","F","F","F","F","F","F"," ">>,
   <<"0","x","3","B","8","2","F","6">>,
   <<"#","3","b","8","2","f","6">>,
   <<"#","3","B","8","2","F","6">>,
   <<"3","B","8","2","F","6">>,
   <<"#","F","F","5","7","3","3">>,
   <<"#","F","5","3">>,
   <<"F","F","5","7","3","3">>,
   <<"#","F","F","6","B","9","D">>,
   <<"#","f","f","-","7","3","3">>,
   <<"#","0","0","0","0","0","0">>,
   <<"#","F","F","F","F","F","F">>,
   <<"#","0","A","0","A","0","A">>,
   <<"#","1","A","1","9","1","9">>,
   <<"#","0","0","2","E","4","5">>,
   <<"#","4","0","4","3","0","D">>,
   <<"#","8","0","4","1","2","C">>,
   <<"#","3","F","8">>,
   <<"#","8","c","F">>}

HexToRgbInputs == StringsUpTo(StringChars, MaxLen) \cup ShorthandInputs \cup OtherInputs

PipelineInputs ==
  StringsUpTo(PipelineChars, MaxPipelineLen) \cup SixDigitInputs \cup OtherInputs

ChannelInputs == (-MaxExtra)..(255 + MaxExtra)

GreenInputs == {-MaxExtra, 0, 9, 16, 87, 171, 255, 255 + MaxExtra}

BlueInputs == {-1, 10, 51, 160, 205, 254, 256}

HueInputs ==
  {Divide(Number(k), Number(HueDen)) : k \in 0..(360 * HueDen - 1)}
    \cup {PreviousDouble(Number(k)) : k \in 1..360}
    \cup {NextDouble(Number(k)) : k \in 1..359}

SaturationInputs ==
  {Number(0), Number(7), PreviousDouble(Number(8)), Number(8), Number(50), Number(100)}

\* The saturations and lightnesses at which getToneName changes bucket.
SaturationLimits == {30, 60, 70}

LightnessLimits == {25, 35, 65, 85}

ToneSaturationInputs ==
  {Number(k) : k \in {0, 15, 45, 65, 85, 100} \cup SaturationLimits}
    \cup {PreviousDouble(Number(k)) : k \in SaturationLimits}

LightnessInputs ==
  {Divide(Number(k), Number(ToneDen)) : k \in 0..(100 * ToneDen)}
    \cup {PreviousDouble(Number(k)) : k \in LightnessLimits}
    \cup {NextDouble(Number(k)) : k \in LightnessLimits}

ToneHueInputs ==
  {Number(0), Divide(Number(1), Number(7)), Divide(Number(650), Number(3)),
   Divide(Number(719), Number(2))}

(***************************************************************************)
(* Calls                                                                   *)
(***************************************************************************)
NoArgs == <<>>

\* The heap of a freshly loaded module.
Loaded == [toneBuckets |-> toneBuckets]

Pending(f, h, n) ==
  /\ mathPow = "down"
  /\ heap = Loaded
  /\ calls = 0
  /\ pc = "call"
  /\ fn = f
  /\ hex = h
  /\ nums = n
  /\ ret = <<>>

InitConversions ==
  \/ \E h \in HexToRgbInputs : Pending("hexToRgb", h, NoArgs)
  \/ \E r \in ChannelInputs, g \in GreenInputs, b \in BlueInputs :
       Pending("rgbToHex", <<>>, <<Number(r), Number(g), Number(b)>>)

InitNaming ==
  \/ \E h \in HueInputs, s \in SaturationInputs :
       Pending("getHueName", <<>>, <<h, s>>)
  \/ \E s \in ToneSaturationInputs, l \in LightnessInputs, h \in ToneHueInputs :
       Pending("getToneName", <<>>, <<s, l, h>>)

\* A pending call of generateColorPalette in a build with each Math.pow.
PendingPalette(h, rounding) ==
  /\ mathPow = rounding
  /\ heap = Loaded
  /\ calls = 0
  /\ pc = "call"
  /\ fn = "generateColorPalette"
  /\ hex = h
  /\ nums = NoArgs
  /\ ret = <<>>

InitPipeline ==
  \/ \E h \in PipelineInputs : Pending("classifyHexColor", h, NoArgs)
  \/ \E h \in PipelineInputs, rounding \in PowRoundings : PendingPalette(h, rounding)

PipelineFunctions == {"classifyHexColor", "generateColorPalette"}

\* A process that has loaded the module and makes its first call.
InitSession ==
  \E f \in PipelineFunctions, h \in OtherInputs, rounding \in PowRoundings :
    /\ mathPow = rounding
    /\ heap = Loaded
    /\ calls = 0
    /\ pc = "call"
    /\ fn = f
    /\ hex = h
    /\ nums = NoArgs
    /\ ret = <<>>

Init == InitConversions \/ InitNaming \/ InitPipeline \/ InitSession

\* Each action applies the pending call's function to its arguments and
\* stores what it returned.
hexToRgbCall ==
  /\ pc = "call" /\ fn = "hexToRgb"
  /\ ret' = hexToRgb(hex)
  /\ pc' = "done"
  /\ calls' = calls + 1
  /\ UNCHANGED <<fn, hex, nums, mathPow, heap>>

rgbToHexCall ==
  /\ pc = "call" /\ fn = "rgbToHex"
  /\ ret' = rgbToHex(nums[1], nums[2], nums[3])
  /\ pc' = "done"
  /\ calls' = calls + 1
  /\ UNCHANGED <<fn, hex, nums, mathPow, heap>>

getHueNameCall ==
  /\ pc = "call" /\ fn = "getHueName"
  /\ ret' = getHueName(nums[1], nums[2])
  /\ pc' = "done"
  /\ calls' = calls + 1
  /\ UNCHANGED <<fn, hex, nums, mathPow, heap>>

getToneNameCall ==
  /\ pc = "call" /\ fn = "getToneName"
  /\ ret' = getToneName(heap.toneBuckets, nums[1], nums[2], nums[3])
  /\ pc' = "done"
  /\ calls' = calls + 1
  /\ UNCHANGED <<fn, hex, nums, mathPow, heap>>

\* classifyHexColorCall that also reverses every list of toneBuckets in
\* place.
classifyHexColorCallReversing ==
  /\ pc = "call" /\ fn = "classifyHexColor"
  /\ ret' = classifyHexColor(heap.toneBuckets, hex)
  /\ pc' = "done"
  /\ calls' = calls + 1
  /\ heap' = [heap EXCEPT !.toneBuckets =
                [k \in DOMAIN @ |-> [i \in 1..Len(@[k]) |-> @[k][Len(@[k]) + 1 - i]]]]
  /\ UNCHANGED <<fn, hex, nums, mathPow>>

classifyHexColorCall ==
  /\ pc = "call" /\ fn = "classifyHexColor"
  /\ ret' = classifyHexColor(heap.toneBuckets, hex)
  /\ pc' = "done"
  /\ calls' = calls + 1
  /\ UNCHANGED <<fn, hex, nums, mathPow, heap>>

generateColorPaletteCall ==
  /\ pc = "call" /\ fn = "generateColorPalette"
  /\ ret' = generateColorPalette(heap.toneBuckets, hex, mathPow)
  /\ pc' = "done"
  /\ calls' = calls + 1
  /\ UNCHANGED <<fn, hex, nums, mathPow, heap>>

\* The process, whether the last call returned or threw, makes another call
\* of either function with any argument.
callAgain ==
  /\ pc = "done" /\ fn \in PipelineFunctions
  /\ calls < MaxCalls
  /\ \E f \in PipelineFunctions, h \in OtherInputs : fn' = f /\ hex' = h
  /\ pc' = "call"
  /\ ret' = <<>>
  /\ UNCHANGED <<nums, mathPow, heap, calls>>

NextConversions == hexToRgbCall \/ rgbToHexCall

NextNaming == getHueNameCall \/ getToneNameCall

NextPipeline == classifyHexColorCall \/ generateColorPaletteCall

NextSession == classifyHexColorCall \/ generateColorPaletteCall \/ callAgain

Next == NextConversions \/ NextNaming \/ NextPipeline \/ NextSession

SpecConversions == InitConversions /\ [][NextConversions]_vars

SpecNaming == InitNaming /\ [][NextNaming]_vars

SpecPipeline == InitPipeline /\ [][NextPipeline]_vars

SpecSession == InitSession /\ [][NextSession]_vars

Spec == Init /\ [][Next]_vars

(***************************************************************************)
(* Properties of the conversion primitives                                 *)
(***************************************************************************)
DigitsLower == <<"0","1","2","3","4","5","6","7","8","9","a","b","c","d","e","f">>

DigitsUpper == <<"0","1","2","3","4","5","6","7","8","9","A","B","C","D","E","F">>

IsHexDigit(c) == \E v \in 1..16 : DigitsLower[v] = c \/ DigitsUpper[v] = c

\* The value 0..15 of a hexadecimal digit of either case.
ValueOfDigit(c) == (CHOOSE v \in 1..16 : DigitsLower[v] = c \/ DigitsUpper[v] = c) - 1

\* String h is an optional '#' followed by exactly n hexadecimal digits.
IsHashAndDigits(h, n) ==
  \E skip \in {0, 1} :
    /\ Len(h) = skip + n
    /\ skip = 1 => h[1] = "#"
    /\ \A i \in (skip + 1)..Len(h) : IsHexDigit(h[i])

\* The digits of an accepted string, after its optional '#'.
DigitsOf(h) == IF h[1] = "#" THEN Tail(h) ELSE h

\* C5: hexToRgb succeeds exactly on the strings made of an optional leading
\* '#' and 3 or 6 hexadecimal digits of either case, and throws on every other
\* string; a 6-digit string gives the three byte values, a 3-digit string has
\* each digit d read as dd, and "#F53" gives r 255, g 85, b 51.
C5_HexToRgbAccepts ==
  (pc = "done" /\ fn = "hexToRgb") =>
       /\ hex = <<"#", "F", "5", "3">> =>
            ret = [threw |-> FALSE, r |-> 255, g |-> 85, b |-> 51]
       /\ ret.threw <=> ~(IsHashAndDigits(hex, 3) \/ IsHashAndDigits(hex, 6))
       /\ IsHashAndDigits(hex, 6) =>
            LET d == DigitsOf(hex)
            IN  /\ ret.r = 16 * ValueOfDigit(d[1]) + ValueOfDigit(d[2])
                /\ ret.g = 16 * ValueOfDigit(d[3]) + ValueOfDigit(d[4])
                /\ ret.b = 16 * ValueOfDigit(d[5]) + ValueOfDigit(d[6])
       /\ IsHashAndDigits(hex, 3) =>
            LET d == DigitsOf(hex)
            IN  /\ ret.r = 16 * ValueOfDigit(d[1]) + ValueOfDigit(d[1])
                /\ ret.g = 16 * ValueOfDigit(d[2]) + ValueOfDigit(d[2])
                /\ ret.b = 16 * ValueOfDigit(d[3]) + ValueOfDigit(d[3])

\* hexToRgb returned r 255, g 85, b 51 for the shorthand "#F53".
C5_Witness ==
  /\ pc = "done"
  /\ fn = "hexToRgb"
  /\ hex = <<"#", "F", "5", "3">>
  /\ ret = [threw |-> FALSE, r |-> 255, g |-> 85, b |-> 51]

\* Integer n limited to the range 0..255.
ClampedChannel(n) == IF n < 0 THEN 0 ELSE IF n > 255 THEN 255 ELSE n

\* C10: for integers r, g, b, also below 0 and above 255, rgbToHex(r, g, b)
\* is '#' followed by exactly 6 uppercase hexadecimal digits, hexToRgb of it
\* is the triple with each channel clamped to 0..255, and rgbToHex(255, 87, 51)
\* is "#FF5733".
C10_RgbToHexRoundTrip ==
  (pc = "done" /\ fn = "rgbToHex") =>
       /\ nums = <<Number(255), Number(87), Number(51)>> =>
            ret = <<"#","F","F","5","7","3","3">>
       /\ Len(ret) = 7
       /\ ret[1] = "#"
       /\ \A i \in 2..7 : \E v \in 1..16 : ret[i] = DigitsUpper[v]
       /\ hexToRgb(ret) = [threw |-> FALSE,
                           r |-> ClampedChannel(MathFloor(nums[1])),
                           g |-> ClampedChannel(MathFloor(nums[2])),
                           b |-> ClampedChannel(MathFloor(nums[3]))]

\* rgbToHex returned "#FF000A" for (258, -3, 10): one channel above 255, one
\* below 0 and one of a single hexadecimal digit.
C10_Witness ==
  /\ pc = "done"
  /\ fn = "rgbToHex"
  /\ nums = <<Number(258), Number(-3), Number(10)>>
  /\ ret = <<"#","F","F","0","0","0","A">>

(***************************************************************************)
(* Properties of the hue and tone classifiers                              *)
(***************************************************************************)
HueBands ==
  <<[from |-> 0, to |-> 15,
     names |-> <<<<"S","c","a","r","l","e","t">>, <<"R","e","d">>, <<"C","r","i","m","s","o","n">>>>],
    [from |-> 15, to |-> 35,
     names |-> <<<<"T","a","n","g","e","r","i","n","e">>, <<"O","r","a","n","g","e">>>>],
    [from |-> 35, to |-> 50,
     names |-> <<<<"A","m","b","e","r">>, <<"H","o","n","e","y">>>>],
    [from |-> 50, to |-> 70,
     names |-> <<<<"L","e","m","o","n">>, <<"Y","e","l","l","o","w">>, <<"G","o","l","d">>>>],
    [from |-> 70, to |-> 85,
     names |-> <<<<"L","i","m","e">>, <<"C","h","a","r","t","r","e","u","s","e">>>>],
    [from |-> 85, to |-> 155,
     names |-> <<<<"M","i","n","t">>, <<"G","r","e","e","n">>, <<"E","m","e","r","a","l","d">>>>],
    [from |-> 155, to |-> 180,
     names |-> <<<<"T","e","a","l">>, <<"A","q","u","a">>>>],
    [from |-> 180, to |-> 200,
     names |-> <<<<"C","y","a","n">>, <<"S","k","y">>>>],
    [from |-> 200, to |-> 240,
     names |-> <<<<"A","z","u","r","e">>, <<"B","l","u","e">>, <<"C","o","b","a","l","t">>>>],
    [from |-> 240, to |-> 270,
     names |-> <<<<"I","n","d","i","g","o">>>>],
    [from |-> 270, to |-> 295,
     names |-> <<<<"V","i","o","l","e","t">>, <<"L","a","v","e","n","d","e","r">>>>],
    [from |-> 295, to |-> 320,
     names |-> <<<<"P","u","r","p","l","e">>, <<"G","r","a","p","e">>>>],
    [from |-> 320, to |-> 335,
     names |-> <<<<"M","a","g","e","n","t","a">>, <<"F","u","c","h","s","i","a">>>>],
    [from |-> 335, to |-> 350,
     names |-> <<<<"R","o","s","e">>, <<"C","e","r","i","s","e">>, <<"R","o","s","e","w","o","o","d">>>>],
    [from |-> 350, to |-> 360,
     names |-> <<<<"S","c","a","r","l","e","t">>, <<"R","e","d">>, <<"C","r","i","m","s","o","n">>>>]>>

HueVocabulary ==
  {<<"N","e","u","t","r","a","l">>} \cup
  UNION {{HueBands[k].names[i] : i \in 1..Len(HueBands[k].names)} : k \in 1..Len(HueBands)}

\* The band [from, to) that holds hue h of [0, 360).
BandOf(h) ==
  HueBands[CHOOSE k \in 1..Len(HueBands) :
             LessEq(Number(HueBands[k].from), h) /\ Less(h, Number(HueBands[k].to))]

\* min(N - 1, floor(((h - bandStart) / (bandEnd - bandStart)) * N)) for band.
BandIndex(h, band) ==
  LET N == Len(band.names)
      position == Divide(Minus(h, Number(band.from)), Number(band.to - band.from))
      index == MathFloor(Times(position, Number(N)))
  IN  IF index > N - 1 THEN N - 1 ELSE index

\* C7: for a hue h of [0, 360) and a saturation s of [0, 100], getHueName(h, s)
\* is "Neutral" when s < 8 and otherwise the name at index
\* min(N - 1, floor(((h - bandStart) / (bandEnd - bandStart)) * N)) of the N
\* names of the band that holds h, in the table of 15 bands; it is always a
\* non-empty name of the fixed vocabulary.
C7_HueNameByBand ==
  (pc = "done" /\ fn = "getHueName") =>
    LET h == nums[1]
        s == nums[2]
    IN  /\ ret = IF Less(s, Number(8)) THEN <<"N","e","u","t","r","a","l">>
                 ELSE BandOf(h).names[BandIndex(h, BandOf(h)) + 1]
        /\ ret # <<>>
        /\ ret \in HueVocabulary

ToneAdjectives ==
  [veryLight |-> <<<<"P","a","l","e">>, <<"W","a","s","h","e","d">>, <<"F","a","i","n","t">>>>,
   lightSoft |-> <<<<"S","o","f","t">>, <<"S","u","b","d","u","e","d">>>>,
   light |-> <<<<"L","i","g","h","t">>, <<"G","e","n","t","l","e">>>>,
   bright |-> <<<<"B","r","i","g","h","t">>, <<"L","i","v","e","l","y">>>>,
   muted |-> <<<<"M","u","t","e","d">>, <<"H","a","z","y">>, <<"S","m","o","k","e","y">>>>,
   medium |-> <<<<"M","e","d","i","u","m">>, <<"B","a","l","a","n","c","e","d">>>>,
   vivid |-> <<<<"V","i","v","i","d">>, <<"S","t","r","o","n","g">>>>,
   dim |-> <<<<"D","i","m">>, <<"M","u","d","d","y">>, <<"D","i","r","t","y">>>>,
   dark |-> <<<<"D","a","r","k">>>>,
   rich |-> <<<<"R","i","c","h">>, <<"I","n","t","e","n","s","e">>>>,
   charcoal |-> <<<<"C","h","a","r","c","o","a","l">>, <<"D","u","s","k","y">>>>,
   deep |-> <<<<"D","e","e","p">>>>,
   inky |-> <<<<"I","n","k","y">>>>]

\* The name of the bucket that saturation s and lightness l fall in.
BucketOf(s, l) ==
  LET tier(low, cut, mid, high) ==
        IF Less(s, Number(30)) THEN low
        ELSE IF Less(s, Number(cut)) THEN mid
        ELSE high
  IN  IF Less(Number(85), l) THEN "veryLight"
      ELSE IF Less(Number(65), l) THEN tier("lightSoft", 60, "light", "bright")
      ELSE IF Less(Number(35), l) THEN tier("muted", 60, "medium", "vivid")
      ELSE IF Less(Number(25), l) THEN tier("dim", 70, "dark", "rich")
      ELSE tier("charcoal", 70, "deep", "inky")

\* floor((h * 7 + s * 5 + l * 3) mod size).
PickIndex(h, s, l, size) ==
  MathFloor(Remainder(Plus(Plus(Times(h, Number(7)), Times(s, Number(5))),
                            Times(l, Number(3))), size))

PaletteReturned == pc = "done" /\ fn = "generateColorPalette" /\ ~ret.threw

ClassificationReturned == pc = "done" /\ fn = "classifyHexColor" /\ ~ret.threw

\* The indices (from 1) of the steps of palette p flagged isChosenColor.
ChosenSteps(p) == {k \in 1..Len(p.steps) : p.steps[k].isChosenColor}

\* The lowercase hexadecimal letters and their uppercase forms.
UpperOfHexLetter ==
  [c \in {"a", "b", "c", "d", "e", "f"} |->
     CASE c = "a" -> "A" [] c = "b" -> "B" [] c = "c" -> "C"
       [] c = "d" -> "D" [] c = "e" -> "E" [] c = "f" -> "F"]

\* String u is string h with its lowercase hexadecimal letters made uppercase.
IsUppercased(u, h) ==
  /\ Len(u) = Len(h)
  /\ \A i \in 1..Len(h) :
       u[i] = IF h[i] \in DOMAIN UpperOfHexLetter THEN UpperOfHexLetter[h[i]] ELSE h[i]

\* The six uppercase digits of the colour that the accepted string h denotes.
NormalizedDigits(h) ==
  LET rgb == hexToRgb(h)
  IN  Tail(rgbToHex(Number(rgb.r), Number(rgb.g), Number(rgb.b)))

WithoutHash(h) == IF Len(h) > 0 /\ h[1] = "#" THEN Tail(h) ELSE h

\* C1, as the specification states it: the step flagged isChosenColor has a
\* hex equal to the input colour normalized to uppercase 6-digit hex (read
\* here without regard to the leading '#').
C1_ChosenHexIsNormalized ==
  PaletteReturned =>
    \A k \in ChosenSteps(ret) : WithoutHash(ret.steps[k].hex) = NormalizedDigits(hex)

\* C1, amended: the step flagged isChosenColor has a hex equal to the input
\* string with its letters made uppercase and nothing else changed: a 3-digit
\* shorthand stays 3 digits and a missing '#' stays missing, so the hex is the
\* normalized "#RRGGBB" form exactly when the input is '#' and six digits.
C1_ChosenHexIsUppercasedInput ==
  PaletteReturned =>
    \A k \in ChosenSteps(ret) :
      /\ IsUppercased(ret.steps[k].hex, hex)
      /\ (ret.steps[k].hex = <<"#">> \o NormalizedDigits(hex)) <=> (Len(hex) = 7)

\* A palette was returned for the lowercase shorthand "#c0c", whose chosen
\* step holds "#C0C".
C1_Witness ==
  /\ PaletteReturned
  /\ hex = <<"#", "c", "0", "c">>
  /\ \E k \in ChosenSteps(ret) : ret.steps[k].hex = <<"#", "C", "0", "C">>

\* C2: a returned palette has exactly 10 steps labelled 50, 100, 200, ...,
\* 900 in that order, exactly one step is flagged isChosenColor, and
\* chosenStep is the label of that step, not its array index.
C2_PaletteShape ==
  PaletteReturned =>
    /\ Len(ret.steps) = 10
    /\ [k \in 1..10 |-> ret.steps[k].step] =
         <<50, 100, 200, 300, 400, 500, 600, 700, 800, 900>>
    /\ Cardinality(ChosenSteps(ret)) = 1
    /\ \A k \in ChosenSteps(ret) :
         ret.chosenStep = ret.steps[k].step /\ ret.chosenStep # k - 1

\* A palette was returned for "#3b82f6" with the step at array index 3
\* flagged and chosenStep 300.
C2_Witness ==
  /\ PaletteReturned
  /\ hex = <<"#", "3", "b", "8", "2", "f", "6">>
  /\ ChosenSteps(ret) = {4}
  /\ ret.chosenStep = 300

TargetLightness == <<95, 90, 80, 65, 50, 40, 30, 20, 12, 8>>

\* The lightness halfway between the targets a and b.
Midway(a, b) == Divide(Number(a + b), Number(2))

\* Target a is nearer to the lightness l than target b is: l lies on a's
\* side of the lightness halfway between them.
Nearer(l, a, b) ==
  IF a > b THEN Less(Midway(a, b), l) ELSE a < b /\ Less(l, Midway(a, b))

\* C3: the chosen index is the index of the target lightness with the least
\* absolute difference to the input's HSL lightness, the lowest such index
\* when several are equally distant; "#000000" chooses step 900.
C3_ClosestFirstWins ==
  PaletteReturned =>
    \A k \in ChosenSteps(ret) :
      LET l == ret.classification.hsl.l
      IN  /\ \A j \in 1..10 : ~Nearer(l, TargetLightness[j], TargetLightness[k])
          /\ \A j \in 1..(k - 1) : Nearer(l, TargetLightness[k], TargetLightness[j])
          /\ (hex = <<"#", "0", "0", "0", "0", "0", "0">> => ret.chosenStep = 900)

\* A palette was returned for "#1A1919", whose lightness is exactly 10, as
\* far from target 12 as from target 8, and step 800 was chosen.
C3_Witness ==
  /\ PaletteReturned
  /\ hex = <<"#", "1", "A", "1", "9", "1", "9">>
  /\ ret.classification.hsl.l = Midway(12, 8)
  /\ ret.chosenStep = 800

\* The saturation C4 gives the synthesized step at index i (from 0).
AdjustedSaturation(s, i) ==
  IF i \in {0, 1} THEN Times(s, Divide(Number(3), Number(10)))
  ELSE IF i \in {8, 9} THEN MathMin(Times(s, Divide(Number(12), Number(10))), Number(100))
  ELSE s

\* C4: every step but the chosen one has the hex hslToHex(input hue, s',
\* target lightness of its index), with s' the input saturation times 0.3 at
\* indices 0-1, min(saturation times 1.2, 100) at indices 8-9, and the input
\* saturation at indices 2-7.
C4_SynthesizedSteps ==
  PaletteReturned =>
    \A k \in (1..10) \ ChosenSteps(ret) :
      LET hsl == ret.classification.hsl
      IN  ret.steps[k].hex =
            hslToHex(hsl.h, AdjustedSaturation(hsl.s, k - 1),
                     Number(TargetLightness[k]))

\* A palette was returned for a colour whose saturation times 1.2 exceeds
\* 100 and is below 100 itself, with both darkest steps synthesized.
C4_Witness ==
  /\ PaletteReturned
  /\ Less(Number(100), Times(ret.classification.hsl.s, Divide(Number(12), Number(10))))
  /\ Less(ret.classification.hsl.s, Number(100))
  /\ ChosenSteps(ret) \cap {9, 10} = {}

\* C6: classifyHexColor and generateColorPalette throw exactly on the
\* strings hexToRgb rejects, having produced no classification and no
\* palette step, and return normally on every string hexToRgb accepts.
C6_FailsOnlyOnRejectedHex ==
  (pc = "done" /\ fn \in {"classifyHexColor", "generateColorPalette"}) =>
    /\ ret.threw <=> hexToRgb(hex).threw
    /\ ret.threw => (IF fn = "generateColorPalette"
                     THEN ret.steps = <<>> /\ DOMAIN ret = {"threw", "steps"}
                     ELSE DOMAIN ret = {"threw"})
    /\ ~ret.threw /\ fn = "generateColorPalette" => Len(ret.steps) = 10

\* generateColorPalette threw on "notacolor" with no step produced.
C6_Witness ==
  /\ pc = "done"
  /\ fn = "generateColorPalette"
  /\ hex = <<"n","o","t","a","c","o","l","o","r">>
  /\ ret.threw
  /\ ret.steps = <<>>

\* fullName with whitespace and hyphens removed and its first character
\* lowercased.
TokenOf(fullName) ==
  LET plain(c) == c \notin {" ", "\t", "\n", "\r", "-"}
      joined == SelectSeq(fullName, plain)
  IN  [i \in 1..Len(joined) |-> IF i = 1 THEN charToLowerCase(joined[1]) ELSE joined[i]]

\* C9: a returned classification has fullName = tone, one space, hueGroup
\* (also when hueGroup is "Neutral"), tokenName = fullName without whitespace
\* and hyphens and with only its first character lowercased ("Bright Azure"
\* gives "brightAzure"), and hsl = the HSL conversion of the input.
C9_ClassificationNames ==
  /\ toTokenName(<<"B","r","i","g","h","t"," ","A","z","u","r","e">>) = <<"b","r","i","g","h","t","A","z","u","r","e">>
  /\ ClassificationReturned =>
       /\ ret.fullName = ret.tone \o <<" ">> \o ret.hueGroup
       /\ ret.tokenName = TokenOf(ret.fullName)
       /\ Len(ret.tokenName) = Len(ret.tone) + Len(ret.hueGroup)
       /\ \A i \in 2..Len(ret.tone) : ret.tokenName[i] = ret.tone[i]
       /\ \A i \in 1..Len(ret.hueGroup) :
            ret.tokenName[Len(ret.tone) + i] = ret.hueGroup[i]
       /\ LET rgb == hexToRgb(hex)
          IN  ret.hsl = rgbToHsl(Number(rgb.r), Number(rgb.g), Number(rgb.b))

\* "#3b82f6" was classified as "Vivid Blue" with the token "vividBlue".
C9_Witness ==
  /\ ClassificationReturned
  /\ hex = <<"#", "3", "b", "8", "2", "f", "6">>
  /\ ret.fullName = <<"V","i","v","i","d"," ","B","l","u","e">>
  /\ ret.tokenName = <<"v","i","v","i","d","B","l","u","e">>

(***************************************************************************)
(* Properties of the contrast figures                                      *)
(***************************************************************************)
\* C11: within every returned palette, contrastWhite is non-increasing and
\* contrastDark is non-decreasing as lightness decreases from step 50 to
\* step 900.
C11_ContrastMonotone ==
  PaletteReturned =>
    \A k \in 1..9 :
      /\ LessEq(ret.steps[k + 1].contrastWhite, ret.steps[k].contrastWhite)
      /\ LessEq(ret.steps[k].contrastDark, ret.steps[k + 1].contrastDark)

\* (max(L1, L2) + 0.05) / (min(L1, L2) + 0.05).
RatioOf(L1, L2) ==
  Divide(Plus(IF Less(L1, L2) THEN L2 ELSE L1, D0_05),
         Plus(IF Less(L1, L2) THEN L1 ELSE L2, D0_05))

\* "AAA" for a ratio of at least 7, "AA" for one of at least 4.5 and below 7,
\* "Fail" for any other.
LevelOf(ratio) ==
  IF LessEq(Number(7), ratio) THEN <<"A","A","A">>
  ELSE IF LessEq(D4_5, ratio) /\ Less(ratio, Number(7)) THEN <<"A","A">>
  ELSE <<"F","a","i","l">>

\* C12: for every step of every palette, contrastWhite and contrastDark are
\* the ratio (max(L1, L2) + 0.05) / (min(L1, L2) + 0.05) of the step's
\* luminance against that of "#FFFFFF" and of "#0A0A0A"; wcagWhite and
\* wcagDark are "AAA" for a ratio >= 7, "AA" for one >= 4.5 and < 7, "Fail"
\* otherwise; the ratio of "#000000" against "#FFFFFF" is 21.
C12_ContrastAndLevels ==
  PaletteReturned =>
    \A k \in 1..Len(ret.steps) :
      LET st == ret.steps[k]
          L == getLuminanceHex(st.hex, mathPow)
      IN  /\ st.contrastWhite =
               RatioOf(L, getLuminanceHex(<<"#","F","F","F","F","F","F">>, mathPow))
          /\ st.contrastDark =
               RatioOf(L, getLuminanceHex(<<"#","0","A","0","A","0","A">>, mathPow))
          /\ st.wcagWhite = LevelOf(st.contrastWhite)
          /\ st.wcagDark = LevelOf(st.contrastDark)
          /\ st.hex = <<"#","0","0","0","0","0","0">> => st.contrastWhite = Number(21)

\* The palette of "#000000" was returned: its chosen step 900 has the ratio
\* 21 against white ("AAA") and fails against dark, step 500 is "AA" against
\* white and step 50 fails against it.
C12_Witness ==
  /\ PaletteReturned
  /\ hex = <<"#","0","0","0","0","0","0">>
  /\ ret.steps[10].hex = <<"#","0","0","0","0","0","0">>
  /\ ret.steps[10].contrastWhite = Number(21)
  /\ ret.steps[10].wcagWhite = <<"A","A","A">>
  /\ ret.steps[10].wcagDark = <<"F","a","i","l">>
  /\ ret.steps[6].wcagWhite = <<"A","A">>
  /\ ret.steps[1].wcagWhite = <<"F","a","i","l">>


(***************************************************************************)
(* The documented example                                                  *)
(***************************************************************************)

BlueFamily == {<<"A","z","u","r","e">>, <<"B","l","u","e">>, <<"C","o","b","a","l","t">>}

BrightOrMedium ==
  {<<"B","r","i","g","h","t">>, <<"L","i","v","e","l","y">>,
   <<"M","e","d","i","u","m">>, <<"B","a","l","a","n","c","e","d">>}

\* C13: classifyHexColor("#3B82F6") returns a hueGroup of the blue family
\* (Azure, Blue or Cobalt) and a tone of the bright or medium vocabulary
\* (Bright, Lively, Medium, Balanced), with fullName "Bright Blue" and
\* tokenName "brightBlue" as the README example prints them.
C13_DocumentedExample ==
  (ClassificationReturned /\ hex = <<"#","3","B","8","2","F","6">>) =>
    /\ ret.hueGroup \in BlueFamily
    /\ ret.tone \in BrightOrMedium
    /\ ret.fullName = <<"B","r","i","g","h","t"," ","B","l","u","e">>
    /\ ret.tokenName = <<"b","r","i","g","h","t","B","l","u","e">>


(***************************************************************************)
(* Sequences of calls                                                      *)
(***************************************************************************)

StepLightness(k) ==
  IF ret.steps[k].isChosenColor THEN ret.classification.hsl.l
  ELSE Number(TargetLightness[k])

\* C15: in every returned palette the lightness of the ten steps, the target
\* lightness of each synthesized step and the input's own HSL lightness at
\* the chosen step, is strictly decreasing from step 50 to step 900.
C15_LightnessDecreasing ==
  PaletteReturned =>
    /\ Len(ret.steps) = 10
    /\ \A k \in 1..9 : Less(StepLightness(k + 1), StepLightness(k))

\* The palette of "#3B82F6" was returned: its lightness, 59.8, is at step
\* 300 in place of the target 65, between the targets 80 and 50.
C15_Witness ==
  /\ PaletteReturned
  /\ hex = <<"#","3","B","8","2","F","6">>
  /\ ret.steps[4].isChosenColor
  /\ StepLightness(4) = ret.classification.hsl.l
  /\ StepLightness(4) # Number(65)
  /\ Less(StepLightness(4), Number(60))
  /\ Less(StepLightness(5), StepLightness(4))
  /\ Less(StepLightness(4), StepLightness(3))

=============================================================================
